---- MODULE Spec2Model ----
(***************************************************************************)
(* Model of the steganography toolkit: KeyManager and the payload         *)
(* pipeline of stegano_toolkit/common_crypto.py (wrap/unwrap_session_key,  *)
(* sign_data, verify_signature, derive_seed, prepare_payload and           *)
(* extract_payload), the wavelet/QIM image codec of image_stego.py and the *)
(* audio, video and document stand-ins with their capacity reports.        *)
(*                                                                         *)
(* Byte strings are sequences over 0..255 with the sizes the code uses.    *)
(* The library primitives (gzip, AES-256-GCM, Ed25519, Reed-Solomon) are   *)
(* modelled by what they do to bytes: a keyed stream plus a tag that binds *)
(* key, nonce and ciphertext; a signature that binds key and data; a       *)
(* systematic code with 32 parity bytes decoded to the nearest codeword    *)
(* within 16 byte errors; a Diffie-Hellman exchange in a small group with  *)
(* X25519's clamping and masking of raw bytes.  os.urandom is a stream of  *)
(* draws that never repeat.                                                *)
(***************************************************************************)
EXTENDS Integers, Sequences, FiniteSets, TLC

(* ------------------------------ bounds -------------------------------- *)

\* The longest message is the prefix of "HELLO!" of this length.
MaxMsgLen == 5

\* Coefficients in each level-2 subband of a carrier image (the code's
\* len(flat_coeffs)): room for the 32-bit prefix and the bits of the wire
\* payload of b"HELLO".
SubbandLen == 640

\* Bit counts read from an image are told apart up to this value.
LengthCap == 32768

\* Coefficients in the level-2 subbands of a smaller carrier: the 32-bit
\* prefix and the bits of the wire payload of the empty message fit, one
\* more byte does not, and the count less 32 is not a multiple of 8.
EdgeSubbandLen == 580

\* A coefficient c is held as the integer CoeffUnits * c.
CoeffUnits == 4

\* os.urandom calls in one run of the model.
MaxDraws == 4

(* ------------------------- program constants -------------------------- *)

HEADER_SIZE == 16
RS_REDUNDANCY == 32
\* reedsolo.RSCodec default block size (nsize)
RS_NSIZE == 255
\* os.urandom(12)
NONCE_SIZE == 12
\* AES-GCM authentication tag appended by AESGCM.encrypt
TAG_SIZE == 16
\* Ed25519 signature length assumed by extract_payload
SIG_SIZE == 64

\* Bits of the length prefix read by ImageSteganography.extract
LENGTH_BITS == 32
\* QIM quantization step: delta = 20
DELTA == 20

(* ------------------------------ inputs -------------------------------- *)

Hello == <<72, 69, 76, 76, 79, 33>>

\* The empty message, a one-byte message and b"HELLO".
Messages == {SubSeq(Hello, 1, n) : n \in {0, 1, MaxMsgLen}}

\* Session keys (32 raw bytes in the code) are named by a small integer.
SessionKeys == {1, 2}

\* "None" for an optional key argument.
NoKey == 0

\* Ed25519 private keys; the public key of sk is PublicKeyOf(sk).
SigningKeys == {1, 2}

PublicKeyOf(sk) == sk + 100

VerifyKeys == {PublicKeyOf(sk) : sk \in SigningKeys}

\* Outcomes of the secure random source: the i-th os.urandom call of a run
\* returns Draw(Entropy[i], n).  Two draws of the source never repeat each
\* other: a repeat of 12 bytes has probability 2^-96 and is left out, as is
\* a forged tag.
Entropy == [i \in 1..MaxDraws |-> (17 + 183 * (i - 1)) % 256]

Seeds == {Entropy[i] : i \in 1..MaxDraws}

Draw(s, n) == [i \in 1..n |-> (s + 7 * i) % 256]

Urandom(n) == {Draw(s, n) : s \in Seeds}

\* os.urandom(n) as the call number `at` of a run
OsUrandom(at, n) == Draw(Entropy[at], n)

(* --------------------------- byte helpers ----------------------------- *)

Min(a, b) == IF a < b THEN a ELSE b

\* Python s[a:b] on a 0-based byte string.
PySlice(s, a, b) == SubSeq(s, a + 1, Min(b, Len(s)))

\* Python s[a:]
PySliceFrom(s, a) == SubSeq(s, a + 1, Len(s))

RECURSIVE WSum(_, _, _)
\* A position-weighted checksum of the bytes s[lo..hi], summed by halves.
WSum(s, lo, hi) ==
    IF lo > hi THEN 0
    ELSE IF lo = hi THEN ((2 * lo + 1) * s[lo]) % 256
    ELSE LET mid == (lo + hi) \div 2
         IN  (WSum(s, lo, mid) + WSum(s, mid + 1, hi)) % 256

Digest(s) == WSum(s, 1, Len(s))

\* Python values by type, where the type of a value matters.
PyBytes(b) == [type |-> "bytes", value |-> b]

PyDict(d) == [type |-> "dict", value |-> d]

PyTuple(a, b) == [type |-> "tuple", value |-> <<a, b>>]

(* ------------------------------- gzip --------------------------------- *)

\* gzip.compress: magic bytes, the data, a checksum and the length trailer.
GzipCompress(m) == <<31, 139>> \o m \o <<Digest(m), Len(m) % 256>>

GzipBody(c) == SubSeq(c, 3, Len(c) - 2)

\* gzip.decompress: raises on a bad magic, checksum or length.
GzipDecompress(c) ==
    IF /\ Len(c) >= 4
       /\ c[1] = 31 /\ c[2] = 139
       /\ c[Len(c) - 1] = Digest(GzipBody(c))
       /\ c[Len(c)] = Len(GzipBody(c)) % 256
    THEN [ok |-> TRUE, data |-> GzipBody(c)]
    ELSE [ok |-> FALSE, data |-> <<>>]

(* ----------------------------- AES-GCM -------------------------------- *)

\* Keystream byte i under a key and the digest of a nonce.
KeyStream(key, nd, i) == (key * 31 + nd + 13 * i) % 256

\* The 16-byte tag binds the key, the whole nonce and the ciphertext.
GcmTag(key, nonce, ct) ==
    <<key>> \o nonce \o <<Digest(ct), Len(ct) % 256, (Digest(ct) + key) % 256>>

\* AESGCM(key).encrypt(nonce, data, None): ciphertext || tag
AESGCMEncrypt(key, nonce, data) ==
    LET nd == Digest(nonce)
        ct == [i \in 1..Len(data) |-> (data[i] + KeyStream(key, nd, i)) % 256]
    IN  ct \o GcmTag(key, nonce, ct)

\* AESGCM(key).decrypt without the tag comparison (an unauthenticated
\* mode): whatever the keystream yields is returned.
AESGCMDecrypt_NoTag(key, nonce, data) ==
    LET n  == IF Len(data) >= TAG_SIZE THEN Len(data) - TAG_SIZE ELSE 0
        ct == SubSeq(data, 1, n)
        nd == Digest(nonce)
    IN  [ok |-> TRUE,
         data |-> [i \in 1..n |-> (ct[i] - KeyStream(key, nd, i)) % 256]]

\* AESGCM(key).decrypt(nonce, data, None): InvalidTag unless the tag is the
\* one this key and nonce give for the ciphertext.
AESGCMDecrypt(key, nonce, data) ==
    LET n   == Len(data) - TAG_SIZE
        ct  == SubSeq(data, 1, n)
        tag == SubSeq(data, n + 1, Len(data))
        nd  == Digest(nonce)
    IN  IF Len(data) >= TAG_SIZE /\ tag = GcmTag(key, nonce, ct)
        THEN [ok |-> TRUE,
              data |-> [i \in 1..n |-> (ct[i] - KeyStream(key, nd, i)) % 256]]
        ELSE [ok |-> FALSE, data |-> <<>>]

(* ----------------------------- Ed25519 -------------------------------- *)

\* sign_data with a signature bound to the key and the length of the data
\* only.
SignData_LengthOnly(data, private_key) ==
    [i \in 1..SIG_SIZE |-> (private_key * 11 + i + Len(data)) % 256]

\* KeyManager.sign_data: a 64-byte signature bound to the key and the data.
SignData(data, private_key) ==
    [i \in 1..SIG_SIZE |-> (private_key * 11 + i * (Digest(data) + 1) + Len(data)) % 256]

\* A public-key argument that Ed25519PublicKey.from_public_bytes rejects (a
\* byte string that is not 32 bytes long).
MalformedKey == 999

\* KeyManager.verify_signature without its try/except: the exceptions of
\* from_public_bytes and of verify reach the caller.
VerifySignatureOutcome_NoCatch(data, signature, public_key) ==
    LET loaded   == public_key \in VerifyKeys
        verified == /\ loaded
                    /\ Len(signature) = SIG_SIZE
                    /\ signature = SignData(data, public_key - 100)
    IN  IF ~loaded THEN [raised |-> TRUE, value |-> FALSE]
        ELSE IF ~verified THEN [raised |-> TRUE, value |-> FALSE]
        ELSE [raised |-> FALSE, value |-> TRUE]

\* KeyManager.verify_signature, lines 142-147: from_public_bytes raises on
\* a malformed key, verify raises InvalidSignature unless the signature is
\* the one the matching private key gives for the data; `except Exception`
\* turns either into the return value False.
VerifySignatureOutcome(data, signature, public_key) ==
    LET loaded   == public_key \in VerifyKeys
        verified == /\ loaded
                    /\ Len(signature) = SIG_SIZE
                    /\ signature = SignData(data, public_key - 100)
    IN  IF ~loaded THEN [raised |-> FALSE, value |-> FALSE]
        ELSE IF ~verified THEN [raised |-> FALSE, value |-> FALSE]
        ELSE [raised |-> FALSE, value |-> TRUE]

\* The boolean a caller of verify_signature gets.
VerifySignature(data, signature, public_key) ==
    VerifySignatureOutcome(data, signature, public_key).value

(* ------------------------------ X25519 -------------------------------- *)

(***************************************************************************)
(* The key exchange is a Diffie-Hellman exchange in the multiplicative     *)
(* group modulo GroupPrime, with the two conversions X25519 applies to raw *)
(* bytes: a private key is clamped before use as a scalar, and the top bit *)
(* of the last byte of a public value is ignored.  A shared secret of zero *)
(* (a public value of low order) makes exchange raise ValueError.          *)
(***************************************************************************)

\* Length of a raw key: os.urandom(32), Encoding.Raw
KEY_SIZE == 32

GroupPrime == 251

GroupBase == 6

RECURSIVE PowMod(_, _, _)
\* b^e modulo m by repeated squaring.
PowMod(b, e, m) ==
    IF e = 0 THEN 1 % m
    ELSE LET h == PowMod(b, e \div 2, m)
         IN  IF e % 2 = 0 THEN (h * h) % m ELSE (((h * h) % m) * b) % m

RECURSIVE LittleEndian(_, _, _, _)
\* The little-endian integer of the bytes s[lo..hi] modulo m, by halves.
LittleEndian(s, lo, hi, m) ==
    IF lo > hi THEN 0
    ELSE IF lo = hi THEN s[lo] % m
    ELSE LET mid == (lo + hi) \div 2
         IN  (LittleEndian(s, lo, mid, m)
                + LittleEndian(s, mid + 1, hi, m) * PowMod(256, mid - lo + 1, m)) % m

\* The scalar of a raw private key: the low three bits of the first byte
\* are cleared, the top bit of the last byte is cleared and the next one
\* set.
X25519Scalar(private_key) ==
    LET clamped == [i \in 1..KEY_SIZE |->
                      IF i = 1 THEN private_key[i] - (private_key[i] % 8)
                      ELSE IF i = KEY_SIZE THEN (private_key[i] % 64) + 64
                      ELSE private_key[i]]
    IN  LittleEndian(clamped, 1, KEY_SIZE, GroupPrime - 1)

\* X25519Decode with the top bit of the last byte read as part of the
\* value.
X25519Decode_NoMask(public_bytes) ==
    LittleEndian(public_bytes, 1, KEY_SIZE, GroupPrime)

\* The group element of a raw public value: the top bit of the last byte is
\* masked, the rest is read little-endian and reduced.
X25519Decode(public_bytes) ==
    LET masked == [i \in 1..KEY_SIZE |->
                      IF i = KEY_SIZE THEN public_bytes[i] % 128
                      ELSE public_bytes[i]]
    IN  LittleEndian(masked, 1, KEY_SIZE, GroupPrime)

\* public_bytes(Encoding.Raw, PublicFormat.Raw) of a group element
X25519Encode(u) == [i \in 1..KEY_SIZE |-> IF i = 1 THEN u ELSE 0]

\* private_key.public_key() as raw bytes
X25519Public(private_key) ==
    X25519Encode(PowMod(GroupBase, X25519Scalar(private_key), GroupPrime))

\* from_public_bytes / from_private_bytes followed by exchange: ValueError
\* for a key that is not 32 bytes long and for a zero shared secret.
X25519Exchange(private_key, public_bytes) ==
    IF Len(private_key) # KEY_SIZE \/ Len(public_bytes) # KEY_SIZE
    THEN [ok |-> FALSE, shared_key |-> <<>>]
    ELSE LET u == PowMod(X25519Decode(public_bytes), X25519Scalar(private_key),
                         GroupPrime)
         IN  IF u = 0 THEN [ok |-> FALSE, shared_key |-> <<>>]
             ELSE [ok |-> TRUE, shared_key |-> X25519Encode(u)]

\* Raw private keys of X25519PrivateKey.generate(): recipients' key pairs
\* and the ephemeral keys of wrap_session_key.
RecipientPrivateKeys == {Draw(91, KEY_SIZE), Draw(44, KEY_SIZE)}

EphemeralPrivateKeys == {Draw(133, KEY_SIZE), Draw(5, KEY_SIZE)}

\* A raw private key that differs from k in a bit the clamping clears.
ClampAlias(k) == [k EXCEPT ![1] = IF @ % 2 = 0 THEN @ + 1 ELSE @ - 1]

(* ------------------------------- HKDF --------------------------------- *)

\* b'session_key_wrap'
INFO_WRAP == <<115, 101, 115, 115, 105, 111, 110, 95, 107, 101, 121, 95, 119, 114, 97, 112>>

\* b'stego_seed'
INFO_SEED == <<115, 116, 101, 103, 111, 95, 115, 101, 101, 100>>

\* HKDF(SHA256, length=32, salt, info).derive(ikm): 32 bytes fixed by the
\* input key material, the salt and the info string (salt=None is the
\* empty salt).
HKDF(salt, info, ikm) ==
    LET prk == (Digest(ikm) + 3 * Digest(salt) + 5 * Digest(info) + Len(ikm)) % 256
    IN  [i \in 1..KEY_SIZE |-> (prk + 11 * (i - 1)) % 256]

\* The small integer that names a 32-byte AES key in AESGCMEncrypt and
\* AESGCMDecrypt.
KeyName(key_bytes) == key_bytes[1]

\* The 32 raw bytes of the session key named k.
SessionKeyBytes(k) == [i \in 1..KEY_SIZE |-> IF i = 1 THEN k ELSE (37 * k + i) % 256]

(* ---------------------------- KeyManager ------------------------------ *)

\* wrap_session_key with a nonce that is not drawn: twelve zero bytes.
WrapSessionKey_FixedNonce(session_key, recipient_public_key, ephemeral_private, rnd_nonce) ==
    LET ex == X25519Exchange(ephemeral_private, recipient_public_key)
        derived_key == HKDF(<<>>, INFO_WRAP, ex.shared_key)
        nonce       == [i \in 1..NONCE_SIZE |-> 0]
        ciphertext  == AESGCMEncrypt(KeyName(derived_key), nonce, session_key)
        ephemeral_public_bytes == X25519Public(ephemeral_private)
    IN  IF ~ex.ok
        THEN [result |-> "ValueError", wrapped |-> <<>>, nonce |-> <<>>]
        ELSE [result |-> "ok",
              wrapped |-> ephemeral_public_bytes \o nonce \o ciphertext,
              nonce |-> nonce]

\* wrap_session_key(session_key, recipient_public_key); ephemeral_private
\* and rnd_nonce are the outcomes of X25519PrivateKey.generate() and
\* os.urandom(12).
WrapSessionKey(session_key, recipient_public_key, ephemeral_private, rnd_nonce) ==
    LET ex == X25519Exchange(ephemeral_private, recipient_public_key)
        derived_key == HKDF(<<>>, INFO_WRAP, ex.shared_key)
        nonce       == rnd_nonce
        ciphertext  == AESGCMEncrypt(KeyName(derived_key), nonce, session_key)
        ephemeral_public_bytes == X25519Public(ephemeral_private)
    IN  IF ~ex.ok
        THEN [result |-> "ValueError", wrapped |-> <<>>, nonce |-> <<>>]
        ELSE [result |-> "ok",
              wrapped |-> ephemeral_public_bytes \o nonce \o ciphertext,
              nonce |-> nonce]

\* unwrap_session_key with the nonce sliced one byte short.
UnwrapSessionKey_ShortNonce(wrapped_key, private_key) ==
    LET ephemeral_public_bytes == PySlice(wrapped_key, 0, 32)
        nonce      == PySlice(wrapped_key, 32, 43)
        ciphertext == PySliceFrom(wrapped_key, 44)
        ex  == X25519Exchange(private_key, ephemeral_public_bytes)
        derived_key == HKDF(<<>>, INFO_WRAP, ex.shared_key)
        dec == AESGCMDecrypt(KeyName(derived_key), nonce, ciphertext)
    IN  IF ~ex.ok THEN [result |-> "ValueError", session_key |-> <<>>]
        ELSE IF ~dec.ok THEN [result |-> "InvalidTag", session_key |-> <<>>]
        ELSE [result |-> "ok", session_key |-> dec.data]

\* unwrap_session_key(wrapped_key, private_key), lines 107-130: the three
\* fields by fixed offsets, the exchange, the derived key, the decryption.
\* The exceptions of the library calls are not caught: ValueError from the
\* key conversions and the exchange, InvalidTag from AESGCM.decrypt.
UnwrapSessionKey(wrapped_key, private_key) ==
    LET ephemeral_public_bytes == PySlice(wrapped_key, 0, 32)
        nonce      == PySlice(wrapped_key, 32, 44)
        ciphertext == PySliceFrom(wrapped_key, 44)
        ex  == X25519Exchange(private_key, ephemeral_public_bytes)
        derived_key == HKDF(<<>>, INFO_WRAP, ex.shared_key)
        dec == AESGCMDecrypt(KeyName(derived_key), nonce, ciphertext)
    IN  IF ~ex.ok THEN [result |-> "ValueError", session_key |-> <<>>]
        ELSE IF ~dec.ok THEN [result |-> "InvalidTag", session_key |-> <<>>]
        ELSE [result |-> "ok", session_key |-> dec.data]

\* "None" for the optional salt argument.
NoSalt == <<>>

\* derive_seed(key, salt=None), lines 152-162; rnd_salt is the outcome of
\* os.urandom(16).  The return value is the derived key alone.
DeriveSeed(key, salt, rnd_salt) ==
    LET used == IF salt = NoSalt THEN rnd_salt ELSE salt
        derived_key == HKDF(used, INFO_SEED, key)
    IN  PyBytes(derived_key)

(* --------------------------- Reed-Solomon ----------------------------- *)

RS_K == RS_NSIZE - RS_REDUNDANCY

RECURSIVE PSum(_, _, _, _)
\* Parity byte j over the data bytes s[lo..hi], summed by halves: linear in
\* the data, every coefficient odd, so each data byte reaches every parity
\* byte.
PSum(s, j, lo, hi) ==
    IF lo > hi THEN 0
    ELSE IF lo = hi THEN ((2 * ((lo * j) % 128) + 1) * s[lo]) % 256
    ELSE LET mid == (lo + hi) \div 2
         IN  (PSum(s, j, lo, mid) + PSum(s, j, mid + 1, hi)) % 256

Parity(chunk) == [j \in 1..RS_REDUNDANCY |-> PSum(chunk, j, 1, Len(chunk))]

RSEncodeChunk(chunk) == chunk \o Parity(chunk)

RECURSIVE RSEncode(_)
\* RSCodec(32).encode: each chunk of up to 223 bytes gets 32 parity bytes.
RSEncode(data) ==
    IF Len(data) = 0 THEN <<>>
    ELSE IF Len(data) <= RS_K THEN RSEncodeChunk(data)
    ELSE RSEncodeChunk(SubSeq(data, 1, RS_K))
             \o RSEncode(SubSeq(data, RS_K + 1, Len(data)))

\* prepare_payload lines 184-208: compress, encrypt, sign, concatenate.
PlainBody(message, session_key, signing_key, nonce) ==
    LET compressed == GzipCompress(message)
        encrypted  == AESGCMEncrypt(session_key, nonce, compressed)
    IN  IF signing_key # NoKey
        THEN SignData(encrypted, signing_key) \o encrypted
        ELSE encrypted

\* The codewords the pipeline can emit within the bounds (one block each).
CodeWords ==
    {RSEncode(PlainBody(m, k, sk, n)) :
        m \in Messages, k \in SessionKeys,
        sk \in SigningKeys \cup {NoKey}, n \in Urandom(NONCE_SIZE)}

Distance(a, b) == Cardinality({i \in 1..Len(a) : a[i] # b[i]})

DataPart(c) == SubSeq(c, 1, Len(c) - RS_REDUNDANCY)

\* All 32 syndromes vanish: the parity bytes are those of the data part.
IsCodeword(c) ==
    /\ Len(c) >= RS_REDUNDANCY
    /\ \A j \in 1..RS_REDUNDANCY :
          c[Len(c) - RS_REDUNDANCY + j] = PSum(c, j, 1, Len(c) - RS_REDUNDANCY)

\* Decoding of one block: the codeword within 16 byte errors, if any; a
\* block that is itself a codeword decodes to its data part.
RSDecodeChunk(c) ==
    LET near == {w \in CodeWords :
                    Len(w) = Len(c) /\ Distance(w, c) <= RS_REDUNDANCY \div 2}
    IN  IF near # {}
        THEN [ok |-> TRUE, data |-> DataPart(CHOOSE w \in near : TRUE)]
        ELSE IF IsCodeword(c)
        THEN [ok |-> TRUE, data |-> DataPart(c)]
        ELSE [ok |-> FALSE, data |-> <<>>]

RECURSIVE RSDecode(_)
\* RSCodec(32).decode(data)[0]: blocks of 255 bytes, ReedSolomonError if
\* any block is uncorrectable.
RSDecode(data) ==
    IF Len(data) = 0 THEN [ok |-> TRUE, data |-> <<>>]
    ELSE IF Len(data) <= RS_NSIZE THEN RSDecodeChunk(data)
    ELSE LET head == RSDecodeChunk(SubSeq(data, 1, RS_NSIZE))
             tail == RSDecode(SubSeq(data, RS_NSIZE + 1, Len(data)))
         IN  IF head.ok /\ tail.ok
             THEN [ok |-> TRUE, data |-> head.data \o tail.data]
             ELSE [ok |-> FALSE, data |-> <<>>]


(* -------------------------- PayloadProcessor -------------------------- *)

\* prepare_payload(message, session_key, signing_key); rnd_nonce and
\* rnd_header are the outcomes of its two os.urandom calls.
PreparePayload(message, session_key, signing_key, rnd_nonce, rnd_header) ==
    LET nonce    == rnd_nonce
        payload  == PlainBody(message, session_key, signing_key, nonce)
        metadata == [version |-> 1, nonce |-> nonce,
                     has_signature |-> signing_key # NoKey]
        encoded_payload == RSEncode(payload)
        header   == rnd_header
    IN  [wire |-> header \o encoded_payload, metadata |-> metadata]

\* What an extract_payload call did: how it ended, the bytes it returned,
\* the stages it ran in order, whether it split off 64 signature bytes,
\* what verify_signature answered, and the nonce and the byte count it
\* handed to AESGCM.decrypt.
Outcome(kind, message, ctx) ==
    [result |-> kind, returned |-> (kind = "ok"), message |-> message,
     stages |-> ctx.stages, stripped |-> ctx.stripped, sig |-> ctx.sig,
     nonce |-> ctx.nonce, ctLen |-> ctx.ctLen]

\* extract_payload lines 272-278: decompress and return.
ExtractPayload_Decompress(compressed, ctx) ==
    LET gz  == GzipDecompress(compressed)
        now == [ctx EXCEPT !.stages = @ \o <<"decompress">>]
    IN  IF gz.ok THEN Outcome("ok", gz.data, now)
        ELSE Outcome("DecompressionFailure", <<>>, now)

\* extract_payload lines 262-270: the nonce is header[:12].
ExtractPayload_Decrypt(header, encrypted, session_key, ctx) ==
    LET nonce == PySlice(header, 0, 12)
        dec   == AESGCMDecrypt(session_key, nonce, encrypted)
        now   == [ctx EXCEPT !.stages = @ \o <<"decrypt">>,
                             !.nonce = nonce, !.ctLen = Len(encrypted)]
    IN  IF dec.ok THEN ExtractPayload_Decompress(dec.data, now)
        ELSE Outcome("DecryptionFailure", <<>>, now)

\* The signature block with the raise left out: a failed verification is
\* noted and decryption goes ahead.
ExtractPayload_Verify_NoAbort(header, payload, session_key, verify_key, ctx) ==
    IF verify_key # NoKey
    THEN LET signature == PySlice(payload, 0, 64)
             encrypted == PySliceFrom(payload, 64)
             valid     == VerifySignature(encrypted, signature, verify_key)
             now == [ctx EXCEPT !.stages = @ \o <<"verify">>, !.stripped = TRUE,
                                !.sig = IF valid THEN "valid" ELSE "invalid"]
         IN  ExtractPayload_Decrypt(header, encrypted, session_key, now)
    ELSE ExtractPayload_Decrypt(header, payload, session_key, ctx)

\* extract_payload lines 249-260: a signature is split off and verified
\* exactly when a verify key was passed.
ExtractPayload_Verify(header, payload, session_key, verify_key, ctx) ==
    IF verify_key # NoKey
    THEN LET signature == PySlice(payload, 0, 64)
             encrypted == PySliceFrom(payload, 64)
             valid     == VerifySignature(encrypted, signature, verify_key)
             now == [ctx EXCEPT !.stages = @ \o <<"verify">>, !.stripped = TRUE,
                                !.sig = IF valid THEN "valid" ELSE "invalid"]
         IN  IF ~valid
             THEN Outcome("SignatureVerificationFailure", <<>>, now)
             ELSE ExtractPayload_Decrypt(header, encrypted, session_key, now)
    ELSE ExtractPayload_Decrypt(header, payload, session_key, ctx)

\* extract_payload with a fallback on a Reed-Solomon failure: the raw
\* block without its parity bytes is passed on.
ExtractPayload_RawFallback(embedded_data, session_key, verify_key) ==
    LET header          == PySlice(embedded_data, 0, HEADER_SIZE)
        encoded_payload == PySliceFrom(embedded_data, HEADER_SIZE)
        rs  == RSDecode(encoded_payload)
        ctx == [stages |-> <<"rs_decode">>, stripped |-> FALSE,
                sig |-> "unchecked", nonce |-> <<>>, ctLen |-> 0]
    IN  ExtractPayload_Verify(header,
            IF rs.ok THEN rs.data ELSE DataPart(encoded_payload),
            session_key, verify_key, ctx)

\* extract_payload(embedded_data, session_key, verify_key), lines 238-247
\* and on: split off the header, Reed-Solomon-decode, then the blocks above.
ExtractPayload(embedded_data, session_key, verify_key) ==
    LET header          == PySlice(embedded_data, 0, HEADER_SIZE)
        encoded_payload == PySliceFrom(embedded_data, HEADER_SIZE)
        rs  == RSDecode(encoded_payload)
        ctx == [stages |-> <<"rs_decode">>, stripped |-> FALSE,
                sig |-> "unchecked", nonce |-> <<>>, ctLen |-> 0]
    IN  IF ~rs.ok
        THEN Outcome("ReedSolomonUncorrectable", <<>>, ctx)
        ELSE ExtractPayload_Verify(header, rs.data, session_key, verify_key, ctx)

(* ------------------------- ImageSteganography ------------------------- *)

(***************************************************************************)
(* Coefficients.  A carrier is given by the 2-level Haar decomposition of  *)
(* its luma plane, as pywt.wavedec2 returns it:                            *)
(*    <<cA2, <<cH2, cV2, cD2>>, <<cH1, cV1, cD1>>>>                        *)
(* each subband flattened in row-major order.  Level-2 coefficients of an  *)
(* 8-bit plane are multiples of 1/4; a coefficient c is held as the        *)
(* integer CoeffUnits * c.  The way from coefficients to the PNG and back  *)
(* (inverse DWT, clip, uint8, colour conversion) is taken to lose nothing. *)
(***************************************************************************)

Const(n, v) == [i \in 1..n |-> v]

\* A solid-gray image: every detail coefficient is zero.
GrayCarrier ==
    <<Const(SubbandLen, 2048),
      <<Const(SubbandLen, 0), Const(SubbandLen, 0), Const(SubbandLen, 0)>>,
      <<Const(4 * SubbandLen, 0), Const(4 * SubbandLen, 0), Const(4 * SubbandLen, 0)>>>>

\* An image with texture: detail coefficients between -50 and 50.
TexturedCarrier ==
    <<[i \in 1..SubbandLen |-> 1600 + ((i * 29) % 400)],
      <<[i \in 1..SubbandLen |-> ((i * 37) % 401) - 200],
        [i \in 1..SubbandLen |-> ((i * 53) % 401) - 200],
        [i \in 1..SubbandLen |-> ((i * 71) % 401) - 200]>>,
      <<[i \in 1..4 * SubbandLen |-> ((i * 13) % 201) - 100],
        [i \in 1..4 * SubbandLen |-> ((i * 17) % 201) - 100],
        [i \in 1..4 * SubbandLen |-> ((i * 19) % 201) - 100]>>>>

\* A solid-gray image with n coefficients in each level-2 subband.
GrayCarrierOf(n) ==
    <<Const(n, 2048),
      <<Const(n, 0), Const(n, 0), Const(n, 0)>>,
      <<Const(4 * n, 0), Const(4 * n, 0), Const(4 * n, 0)>>>>

\* A smaller gray image, and a 4x4 one: a single coefficient per level-2
\* subband.
EdgeCarrier == GrayCarrierOf(EdgeSubbandLen)

TinyCarrier == GrayCarrierOf(1)

Carriers == {GrayCarrier, TexturedCarrier, EdgeCarrier, TinyCarrier}

Abs(x) == IF x < 0 THEN -x ELSE x

\* Python round(n / d) for d > 0: to the nearest integer, ties to even.
RoundHalfEven(n, d) ==
    LET q == n \div d
        r == n % d
    IN  IF 2 * r < d THEN q
        ELSE IF 2 * r > d THEN q + 1
        ELSE IF q % 2 = 0 THEN q ELSE q + 1

\* The quantization step in coefficient units.
Step == DELTA * CoeffUnits

\* delta * round(coeff / delta)
Q0(coeff) == Step * RoundHalfEven(coeff, Step)

\* The second lattice without its offset of delta/2.
Q1_NoOffset(coeff) == Step * RoundHalfEven(2 * coeff + Step, 2 * Step)

\* delta * round(coeff / delta + 0.5) - delta/2
Q1(coeff) == Step * RoundHalfEven(2 * coeff + Step, 2 * Step) - Step \div 2

\* A 0/1 bit as a Python int.
PyInt(b) == [type |-> "int", value |-> b]

\* Python `x == 0`
PyEqualsZero(x) == x.type = "int" /\ x.value = 0

\* An embedding that quantizes every coefficient of the subband, those
\* beyond the payload as zero bits.
EmbedInCoeffs_WholeSubband(coeffs, payload_bits) ==
    LET flat_coeffs == coeffs[2][2]
        embedded ==
            [i \in 1..Len(flat_coeffs) |->
               IF i > Len(payload_bits) \/ PyEqualsZero(payload_bits[i])
               THEN Q0(flat_coeffs[i]) ELSE Q1(flat_coeffs[i])]
    IN  [ok |-> Len(payload_bits) <= Len(flat_coeffs),
         coeffs |-> [coeffs EXCEPT ![2] = <<coeffs[2][1], embedded, coeffs[2][3]>>]]

\* _embed_in_coeffs(coeffs, payload_bits, key): ok is FALSE for the
\* "Payload too large" ValueError.
EmbedInCoeffs(coeffs, payload_bits) ==
    LET h_coeffs    == coeffs[2][2]
        flat_coeffs == h_coeffs
    IN  IF Len(payload_bits) > Len(flat_coeffs)
        THEN [ok |-> FALSE, coeffs |-> coeffs]
        ELSE LET embedded ==
                   [i \in 1..Len(flat_coeffs) |->
                      IF i > Len(payload_bits) THEN flat_coeffs[i]
                      ELSE IF PyEqualsZero(payload_bits[i]) THEN Q0(flat_coeffs[i])
                      ELSE Q1(flat_coeffs[i])]
             IN  [ok |-> TRUE,
                  coeffs |-> [coeffs EXCEPT ![2] = <<coeffs[2][1], embedded, coeffs[2][3]>>]]

\* _extract_from_coeffs(coeffs, payload_length, key): the loop breaks at
\* the end of the subband.
ExtractFromCoeffs(coeffs, payload_length) ==
    LET flat_coeffs == coeffs[2][2]
    IN  [i \in 1..Min(payload_length, Len(flat_coeffs)) |->
           IF Abs(flat_coeffs[i] - Q0(flat_coeffs[i]))
                < Abs(flat_coeffs[i] - Q1(flat_coeffs[i]))
           THEN 0 ELSE 1]

RECURSIVE BitsToInt(_, _, _)
\* int(''.join(map(str, bits)), 2) over bits[lo..hi], by halves.  A Python
\* int has no width; here a value of LengthCap or more is held as
\* LengthCap, which is all that a comparison with a subband length needs.
BitsToInt(bits, lo, hi) ==
    IF lo > hi THEN 0
    ELSE IF lo = hi THEN bits[lo]
    ELSE LET mid   == (lo + hi) \div 2
             left  == BitsToInt(bits, lo, mid)
             right == BitsToInt(bits, mid + 1, hi)
             shift == hi - mid
         IN  IF left = 0 THEN right
             ELSE IF shift >= 15 \/ left >= LengthCap THEN LengthCap
             ELSE Min(left * 2 ^ shift + right, LengthCap)

\* ImageSteganography.embed(image_data, payload, key): payload_bits is what
\* prepare_payload returns, the pair (final_payload, metadata).
ImageEmbedCoeffs(carrier, payload, key, rnd_nonce, rnd_header) ==
    LET prepared     == PreparePayload(payload, key, NoKey, rnd_nonce, rnd_header)
        payload_bits == <<PyBytes(prepared.wire), PyDict(prepared.metadata)>>
    IN  EmbedInCoeffs(carrier, payload_bits)

\* ImageSteganography.extract(stego_data, key): the first 32 bits as the
\* length, then 32 + length bits from the start of the subband, handed to
\* extract_payload as they are.  Beside the outcome: the bits asked for and
\* got, the length read, and what was handed on (a list of 0/1 values or
\* bytes, from which decoded bit, how many).
ImageExtractCoeffs(stego, key) ==
    LET length_bits    == ExtractFromCoeffs(stego, LENGTH_BITS)
        payload_length == BitsToInt(length_bits, 1, Len(length_bits))
        payload_bits   == ExtractFromCoeffs(stego, LENGTH_BITS + payload_length)
    IN  IF Len(length_bits) = 0
        THEN [result |-> "ValueError", returned |-> FALSE, message |-> <<>>,
              requested |-> 0, got |-> 0, length |-> 0,
              handed |-> [type |-> "none", first |-> 0, count |-> 0]]
        ELSE LET r == ExtractPayload(payload_bits, key, NoKey)
             IN  [result |-> r.result, returned |-> r.returned, message |-> r.message,
                  requested |-> LENGTH_BITS + payload_length, got |-> Len(payload_bits),
                  length |-> payload_length,
                  handed |-> [type |-> "list", first |-> 0, count |-> Len(payload_bits)]]

\* ImageSteganography.analyze_capacity(image_data), lines 240-254: the
\* dictionary it returns (efficiency_ratio, a float quotient of two of the
\* entries, is left out).  The image has 16 pixels per level-2 coefficient
\* and three bands.
ImageAnalyzeCapacity(carrier) ==
    LET h_coeffs     == carrier[2][2]
        total_coeffs == Len(h_coeffs)
        usable_bits  == total_coeffs - 32
        usable_bytes == usable_bits \div 8
    IN  [total_coefficients |-> total_coeffs,
         usable_bits |-> usable_bits,
         usable_bytes |-> usable_bytes,
         image_size_bytes |-> 16 * total_coeffs * 3]

(* ------------------------- AudioSteganography ------------------------- *)

\* b"Extracted payload from audio"
AudioPlaceholder ==
    <<69, 120, 116, 114, 97, 99, 116, 101, 100, 32, 112, 97, 121, 108, 111, 97,
      100, 32, 102, 114, 111, 109, 32, 97, 117, 100, 105, 111>>

\* Audio carriers: the sample bytes of a file AudioSegment can load, or
\* bytes it cannot.
AudioCarriers == {[loadable |-> TRUE, samples |-> <<3, 1, 4, 1, 5>>],
                  [loadable |-> TRUE, samples |-> <<2, 7, 1, 8>>],
                  [loadable |-> FALSE, samples |-> <<0>>]}

\* AudioSteganography.embed(audio_data, payload, seed): the samples are
\* written back as they were read; from_file raises on bytes it cannot load.
AudioEmbedSamples(audio, payload, seed) ==
    IF audio.loadable
    THEN [ok |-> TRUE, audio |-> [loadable |-> TRUE, samples |-> audio.samples]]
    ELSE [ok |-> FALSE, audio |-> audio]

\* AudioSteganography.extract(audio_data, seed, payload_size)
AudioExtractPayload(audio, seed, payload_size) ==
    IF audio.loadable
    THEN [result |-> "ok", returned |-> TRUE, data |-> AudioPlaceholder]
    ELSE [result |-> "CouldntDecodeError", returned |-> FALSE, data |-> <<>>]

\* AudioSteganography.analyze_capacity(audio_data): one bit per 100
\* samples; from_file's exception is logged and raised again.
AudioAnalyzeCapacity(audio) ==
    IF ~audio.loadable
    THEN [raised |-> TRUE, report |-> [error |-> "CouldntDecodeError"]]
    ELSE LET capacity_bits  == Len(audio.samples) \div 100
             capacity_bytes == capacity_bits \div 8
         IN  [raised |-> FALSE,
              report |-> [samples |-> Len(audio.samples),
                          capacity_bytes |-> capacity_bytes,
                          recommended_max_payload |-> capacity_bytes \div 2]]

(* ------------------ VideoSteganography, DocumentSteganography --------- *)

\* Temporary files are named by the operation and the variable that holds
\* them; every one is made with delete=False, so leaving the `with` block
\* closes the handle and keeps the file.
NoFiles == {}

\* b"Extracted payload from video"
VideoPlaceholder ==
    <<69, 120, 116, 114, 97, 99, 116, 101, 100, 32, 112, 97, 121, 108, 111, 97,
      100, 32, 102, 114, 111, 109, 32, 118, 105, 100, 101, 111>>

\* Videos: what ffprobe reports (width, height, frames = duration * rate),
\* or a file ffmpeg and ffprobe fail on.
VideoCarriers == {[readable |-> TRUE, width |-> 64, height |-> 48, frames |-> 20],
                  [readable |-> FALSE, width |-> 0, height |-> 0, frames |-> 0]}

\* VideoSteganography.embed(video_data, payload, seed): ffmpeg copies the
\* streams; the payload is not used.  A failing ffmpeg raises
\* (check=True) from inside the `with` block, before the two os.unlink
\* calls of lines 58-59: `left` is what stays in the temporary directory.
VideoEmbed(video, payload, seed) ==
    IF video.readable
    THEN [result |-> "ok", carrier |-> video, hidden |-> <<>>, left |-> NoFiles]
    ELSE [result |-> "CalledProcessError", carrier |-> video, hidden |-> <<>>,
          left |-> {"video.embed.input_file", "video.embed.output_file"}]

\* VideoSteganography.extract(video_data, seed, payload_size), lines 67-91:
\* the data is written to a temporary file, the file is removed, and the
\* fixed bytes are returned; nothing is run on the file.
VideoExtract(video, seed, payload_size) ==
    [result |-> "ok", returned |-> TRUE, data |-> VideoPlaceholder, left |-> NoFiles]

\* VideoSteganography.analyze_capacity(video_data), lines 93-145: any
\* exception gives the default report; the os.unlink of line 127 is after
\* the ffprobe call that raises.
VideoAnalyzeCapacity(video) ==
    IF video.readable
    THEN LET i_frames       == video.frames \div 10
             capacity_bits  == (i_frames * (video.width * video.height)) \div 64
             capacity_bytes == capacity_bits \div 8
         IN  [raised |-> FALSE,
              report |-> [width |-> video.width, height |-> video.height,
                          estimated_i_frames |-> i_frames,
                          capacity_bytes |-> capacity_bytes,
                          recommended_max_payload |-> capacity_bytes \div 2],
              left |-> NoFiles]
    ELSE [raised |-> FALSE,
          report |-> [capacity_bytes |-> 1000, recommended_max_payload |-> 500],
          left |-> {"video.analyze_capacity.input_file"}]

\* Documents by their leading bytes (b'%PDF': "pdf", b'PK': "docx",
\* anything else: "other"), their size in bytes, whether the parser of
\* that format (pikepdf, python-docx) opens them, and what is hidden in
\* them: the bytes of the Root.Stego stream of a PDF, the comments
\* property of a DOCX.
Documents == {[type |-> "pdf", size |-> 1500, parses |-> TRUE,
                 hidden |-> <<>>, comments |-> <<>>],
              [type |-> "docx", size |-> 1500, parses |-> TRUE,
                 hidden |-> <<>>, comments |-> <<>>],
              [type |-> "docx", size |-> 300, parses |-> FALSE,
                 hidden |-> <<>>, comments |-> <<>>],
              [type |-> "other", size |-> 40, parses |-> FALSE,
                 hidden |-> <<>>, comments |-> <<>>]}

\* The document_type argument: None (the default), 'pdf', 'docx', or a
\* value that is neither, such as 'txt' or an integer.
NoType == "None"

\* args.payload_size (an int, 1024 unless given) as the command line
\* passes it, in the position of document_type.
PayloadSizeArgument == "1024"

DocumentTypes == {NoType, "pdf", "docx", "txt", PayloadSizeArgument}

\* A dispatch that looks at the leading bytes first and at the argument
\* only when they say nothing.
DocumentFormat_BytesFirst(document, document_type) ==
    IF document.type \in {"pdf", "docx"} THEN document.type
    ELSE IF document_type \in {"pdf", "docx"} THEN document_type
    ELSE "unsupported"

\* The branch embed, extract and analyze_capacity each select (lines
\* 128-133, 137-142, 148-171).
DocumentFormat(document, document_type) ==
    IF document_type = "pdf" \/ (document_type = NoType /\ document.type = "pdf")
    THEN "pdf"
    ELSE IF document_type = "docx" \/ (document_type = NoType /\ document.type = "docx")
    THEN "docx"
    ELSE "unsupported"

\* pikepdf.Pdf.open / docx.Document succeed on a well-formed file of their
\* own format.
Opens(document, format) == document.parses /\ document.type = format

\* bytes.hex(): two digits (0..15) for each byte; bytes.fromhex() back.
BytesHex(b) ==
    [i \in 1..(2 * Len(b)) |->
        IF i % 2 = 1 THEN b[(i + 1) \div 2] \div 16 ELSE b[i \div 2] % 16]

BytesFromHex(h) == [i \in 1..(Len(h) \div 2) |-> 16 * h[2 * i - 1] + h[2 * i]]

\* DocumentSteganography.embed(document_data, payload, seed, document_type),
\* lines 126-133 with embed_pdf (23-41) and embed_docx (58-94): the whole
\* payload is stored in the document (a PDF stream, the DOCX comments
\* property as hex digits); other types raise "Unsupported document type".
\* embed_docx raises from inside its `with` block when Document() cannot
\* open the file, before the os.unlink calls of lines 87-88.  The payloads
\* used here stay far below the length a DOCX property can hold.
DocumentEmbed(document, payload, seed, document_type) ==
    LET format == DocumentFormat(document, document_type)
    IN  IF format = "pdf"
        THEN IF Opens(document, "pdf")
             THEN [result |-> "ok",
                   carrier |-> [document EXCEPT !.size = @ + Len(payload),
                                                !.hidden = payload],
                   hidden |-> payload, left |-> NoFiles]
             ELSE [result |-> "PdfError", carrier |-> document, hidden |-> <<>>,
                   left |-> NoFiles]
        ELSE IF format = "docx"
        THEN IF Opens(document, "docx")
             THEN [result |-> "ok",
                   carrier |-> [document EXCEPT !.size = @ + 2 * Len(payload),
                                                !.comments = BytesHex(payload)],
                   hidden |-> payload, left |-> NoFiles]
             ELSE [result |-> "PackageNotFoundError", carrier |-> document,
                   hidden |-> <<>>,
                   left |-> {"docx.embed.input_file", "docx.embed.output_file"}]
        ELSE [result |-> "UnsupportedMediaType", carrier |-> document, hidden |-> <<>>,
              left |-> NoFiles]

\* DocumentSteganography.extract(document_data, seed, document_type), lines
\* 135-142 with extract_pdf (43-56) and extract_docx (96-124).  In
\* extract_docx both raising paths (Document() and "No steganographic
\* payload found") leave the `with` block before the os.unlink of line 118.
DocumentExtract(document, seed, document_type) ==
    LET format == DocumentFormat(document, document_type)
    IN  IF format = "pdf"
        THEN IF ~Opens(document, "pdf")
             THEN [result |-> "PdfError", returned |-> FALSE, data |-> <<>>,
                   left |-> NoFiles]
             ELSE IF document.hidden = <<>>
             THEN [result |-> "NoPayloadFound", returned |-> FALSE, data |-> <<>>,
                   left |-> NoFiles]
             ELSE [result |-> "ok", returned |-> TRUE, data |-> document.hidden,
                   left |-> NoFiles]
        ELSE IF format = "docx"
        THEN IF ~Opens(document, "docx")
             THEN [result |-> "PackageNotFoundError", returned |-> FALSE,
                   data |-> <<>>, left |-> {"docx.extract.input_file"}]
             ELSE IF document.comments = <<>>
             THEN [result |-> "NoPayloadFound", returned |-> FALSE, data |-> <<>>,
                   left |-> {"docx.extract.input_file"}]
             ELSE [result |-> "ok", returned |-> TRUE,
                   data |-> BytesFromHex(document.comments), left |-> NoFiles]
        ELSE [result |-> "UnsupportedMediaType", returned |-> FALSE, data |-> <<>>,
              left |-> NoFiles]

\* DocumentSteganography.analyze_capacity(document_data, document_type),
\* lines 144-179: the "Unsupported document type" error is caught by the
\* function's own handler, which returns the default report.  Only the
\* length of the data is used.
DocumentAnalyzeCapacity(document, document_type) ==
    LET format == DocumentFormat(document, document_type)
    IN  IF format = "pdf"
        THEN LET capacity_bytes == document.size \div 100
             IN  [raised |-> FALSE,
                  report |-> [type |-> "pdf", size_bytes |-> document.size,
                              capacity_bytes |-> capacity_bytes,
                              recommended_max_payload |-> capacity_bytes \div 2]]
        ELSE IF format = "docx"
        THEN LET capacity_bytes == document.size \div 200
             IN  [raised |-> FALSE,
                  report |-> [type |-> "docx", size_bytes |-> document.size,
                              capacity_bytes |-> capacity_bytes,
                              recommended_max_payload |-> capacity_bytes \div 2]]
        ELSE [raised |-> FALSE,
              report |-> [capacity_bytes |-> 1000, recommended_max_payload |-> 500]]

(* ------------------------------- state -------------------------------- *)

VARIABLES
    pp,      \* the last prepare_payload call: its inputs, draws and metadata
    wire,    \* the wire bytes on their way to extract_payload
    tamper,  \* what the channel did to the wire bytes
    ext,     \* the last extract_payload call: its inputs and its Outcome
    img,     \* an image on its way through ImageSteganography
    aud,     \* an audio file on its way through AudioSteganography
    rng,     \* how many os.urandom calls the run has made
    aead,    \* the AESGCM.encrypt calls of the run: operation and nonce
    kx,      \* a session key on its way through wrap/unwrap_session_key
    sg,      \* data on its way through sign_data and verify_signature
    ds,      \* derive_seed calls of one caller
    cap,     \* an analyze_capacity call of one of the codecs
    oth,     \* an embed call of the video or the document codec
    tmpfiles,\* temporary files the codecs' calls have left behind
    thr,     \* concurrent invocations: each thread's call and the frames of locals
    qim,     \* one coefficient on its way through the QIM rule
    frm,     \* an image followed from its pixels through embed and back
    doc,     \* embed, extract and analyze_capacity of DocumentSteganography on one input
    cli,     \* embed_command and extract_command of the command line on one file
    api      \* the tables of the API's database and the last response

vars == <<pp, wire, tamper, ext, img, aud, rng, aead, kx, sg, ds, cap, oth,
         tmpfiles, thr, qim, frm, doc, cli, api>>

NoPrepared ==
    [status |-> "none", message |-> <<>>, session_key |-> NoKey,
     signing_key |-> NoKey, nonce |-> <<>>, has_signature |-> FALSE]

NoTamper == [kind |-> "none", start |-> 0, count |-> 0]

NoExt ==
    [result |-> "none", returned |-> FALSE, message |-> <<>>, stages |-> <<>>,
     stripped |-> FALSE, sig |-> "unchecked", nonce |-> <<>>, ctLen |-> 0,
     session_key |-> NoKey, verify_key |-> NoKey]

NoImageOut ==
    [result |-> "none", returned |-> FALSE, message |-> <<>>,
     requested |-> 0, got |-> 0, length |-> 0,
     handed |-> [type |-> "none", first |-> 0, count |-> 0], key |-> NoKey]

NoImage ==
    [status |-> "none", embedded |-> FALSE, stego |-> <<>>,
     message |-> <<>>, key |-> NoKey, wire |-> <<>>, out |-> NoImageOut]

NoAudioOut == [result |-> "none", returned |-> FALSE, data |-> <<>>]

NoAudio ==
    [status |-> "none", stego |-> [loadable |-> FALSE, samples |-> <<>>],
     payload |-> <<>>, out |-> NoAudioOut]

NoUnwrapped == [result |-> "none", session_key |-> <<>>, private_key |-> <<>>]

NoKeyExchange ==
    [status |-> "none", session_key |-> <<>>, recipient |-> <<>>,
     ephemeral |-> <<>>, nonce |-> <<>>, wrapped |-> <<>>, blob |-> <<>>,
     tamper |-> [kind |-> "none", at |-> 0], out |-> NoUnwrapped]

NoVerified == [result |-> "none", raised |-> FALSE, value |-> FALSE, public_key |-> NoKey]

NoSigned ==
    [status |-> "none", signing_key |-> NoKey, signed |-> <<>>, data |-> <<>>,
     signature |-> <<>>, tamper |-> [kind |-> "none", at |-> 0], out |-> NoVerified]

NoDerived ==
    [status |-> "none", key |-> <<>>, salt |-> NoSalt, first |-> PyBytes(<<>>),
     again_salt |-> NoSalt, again |-> PyBytes(<<>>)]

NoCapacity ==
    [status |-> "none", codec |-> "none", analysable |-> TRUE,
     raised |-> FALSE, report |-> <<>>]

NoOtherOut == [result |-> "none", returned |-> FALSE, data |-> <<>>]

NoOther ==
    [status |-> "none", codec |-> "none", payload |-> <<>>, capacity_bytes |-> 0,
     result |-> "none", hidden |-> <<>>, document_type |-> NoType,
     carrier |-> <<>>, out |-> NoOtherOut]

\* Two threads, each making one call.
Threads == {1, 2}

\* The locals of one invocation: those of prepare_payload (lines 184-218)
\* and those of _embed_in_coeffs (image_stego.py lines 52-79).
NoLocals ==
    [message |-> <<>>, session_key |-> NoKey, compressed |-> <<>>, nonce |-> <<>>,
     encrypted |-> <<>>, encoded_payload |-> <<>>, header |-> <<>>,
     coeffs |-> <<>>, payload_bits |-> <<>>, flat_coeffs |-> <<>>, i |-> 0]

NoCall ==
    [pc |-> "none", op |-> "none", message |-> <<>>, session_key |-> NoKey,
     coeffs |-> <<>>, payload_bits |-> <<>>, draws |-> <<>>, ret |-> <<>>]

NoThreads ==
    [calls |-> [t \in Threads |-> NoCall], frames |-> [t \in Threads |-> NoLocals]]

NoFrame ==
    [status |-> "none", image |-> [y |-> <<>>, cb |-> <<>>, cr |-> <<>>],
     payload_bits |-> <<>>, coeffs |-> <<>>, modified |-> <<>>,
     stego |-> [y |-> <<>>, cb |-> <<>>, cr |-> <<>>], read |-> <<>>]

NoDispatch ==
    [status |-> "none", document |-> <<>>, document_type |-> NoType,
     payload |-> <<>>, done |-> {},
     embed |-> <<>>, extract |-> <<>>, analyze_capacity |-> <<>>]

NoCliOut ==
    [key |-> NoKey, handler |-> "none", result |-> "none", returned |-> FALSE,
     message |-> <<>>]

NoCli ==
    [status |-> "none", ext |-> "", file_type |-> "none", handler |-> "none",
     message |-> <<>>, key |-> NoKey, payload |-> <<>>, result |-> "none",
     output |-> <<>>, out |-> NoCliOut]

\* Users, key ids and file ids of the API; 0 stands for "none" (no row,
\* NULL, not supplied).
ApiUsers == {1, 2}

ApiKeyIds == {1, 2}

ApiFileIds == {1, 2}

NoRow == [exists |-> FALSE, user |-> 0, key |-> 0, watermarked_file |-> FALSE]

NoResponse == [request |-> "none", user |-> 0, status |-> 0,
               key_read |-> 0, key_owner |-> 0]

\* An empty database: keys maps a key id to the user of its CryptoKey row,
\* files a file id to its MediaFile row.
NoApi ==
    [keys |-> [k \in ApiKeyIds |-> 0], files |-> [f \in ApiFileIds |-> NoRow],
     last |-> NoResponse]

\* The databases the server may start on: the empty one, and one that holds
\* a MediaFile row of each user, with an original file and no key.  (No
\* request creates a MediaFile row: see FileCreate.)
ApiStart ==
    {NoApi,
     [NoApi EXCEPT !.files = [f \in ApiFileIds |->
                                 [exists |-> TRUE, user |-> f, key |-> 0,
                                  watermarked_file |-> FALSE]]]}

NoQim == [status |-> "none", coeff |-> 0, bit |-> 0, embedded |-> 0, extracted |-> 0]

\* Nothing of the toolkit has been called.
NothingCalled ==
    /\ pp = NoPrepared
    /\ wire = <<>>
    /\ tamper = NoTamper
    /\ ext = NoExt
    /\ img = NoImage
    /\ aud = NoAudio
    /\ rng = 0
    /\ aead = <<>>
    /\ kx = NoKeyExchange
    /\ sg = NoSigned
    /\ ds = NoDerived
    /\ cap = NoCapacity
    /\ oth = NoOther
    /\ tmpfiles = NoFiles
    /\ thr = NoThreads
    /\ qim = NoQim
    /\ frm = NoFrame
    /\ doc = NoDispatch
    /\ cli = NoCli

\* The toolkit before any call, the database of the API empty.
Init ==
    /\ NothingCalled
    /\ api = NoApi

\* The API server starts on a database as it finds it.
ApiInit ==
    /\ NothingCalled
    /\ api \in ApiStart

\* No run of the pipeline or of a codec is under way.
Idle ==
    /\ pp.status = "none" /\ img.status = "none" /\ aud.status = "none"
    /\ cap.status = "none" /\ oth.status = "none"

\* A caller runs prepare_payload and puts the wire bytes on the channel.
Prepare ==
    /\ Idle /\ rng + 2 <= MaxDraws
    /\ \E m \in Messages, k \in SessionKeys, sk \in SigningKeys \cup {NoKey} :
        LET r == PreparePayload(m, k, sk, OsUrandom(rng + 1, NONCE_SIZE),
                                OsUrandom(rng + 2, HEADER_SIZE))
        IN  /\ pp' = [status |-> "prepared", message |-> m, session_key |-> k,
                      signing_key |-> sk, nonce |-> r.metadata.nonce,
                      has_signature |-> r.metadata.has_signature]
            /\ wire' = r.wire
            /\ tamper' = NoTamper
            /\ ext' = NoExt
            /\ rng' = rng + 2
            /\ aead' = Append(aead, [op |-> "prepare_payload",
                                     nonce |-> r.metadata.nonce])
            /\ UNCHANGED <<img, aud, kx, sg, ds, cap, oth, tmpfiles, thr,
                           qim, frm, doc, cli, api>>

Flip(b) == 255 - b

BodyLen == Len(wire) - HEADER_SIZE

\* How many bytes the channel changes: one, the 16 the code corrects, one
\* more, and half of the block.
CorruptCounts == {1, RS_REDUNDANCY \div 2, RS_REDUNDANCY \div 2 + 1, BodyLen \div 2}

\* The channel changes `count` consecutive bytes of the encoded body, at
\* its start or at its end; the header is left intact.
CorruptBody ==
    /\ pp.status = "prepared" /\ tamper.kind = "none" /\ ext.result = "none"
    /\ \E count \in CorruptCounts : \E start \in {1, BodyLen - count + 1} :
        /\ wire' = [i \in 1..Len(wire) |->
                      IF /\ i >= HEADER_SIZE + start
                         /\ i < HEADER_SIZE + start + count
                      THEN Flip(wire[i]) ELSE wire[i]]
        /\ tamper' = [kind |-> "body", start |-> start, count |-> count]
    /\ UNCHANGED <<pp, ext, img, aud, rng, aead, kx, sg, ds, cap, oth,
                   tmpfiles, thr, qim, frm, doc, cli, api>>

\* The channel changes one byte of header[2:14], the nonce field of the
\* documented header layout.
MutateNonceField ==
    /\ pp.status = "prepared" /\ tamper.kind = "none" /\ ext.result = "none"
    /\ \E j \in {2, 8, 13} :
        /\ wire' = [wire EXCEPT ![j + 1] = (@ + 1) % 256]
        /\ tamper' = [kind |-> "nonce_field", start |-> j, count |-> 1]
    /\ UNCHANGED <<pp, ext, img, aud, rng, aead, kx, sg, ds, cap, oth,
                   tmpfiles, thr, qim, frm, doc, cli, api>>

\* A caller runs extract_payload on the bytes that arrived.
Extract ==
    /\ pp.status = "prepared" /\ ext.result = "none"
    /\ \E k \in SessionKeys, vk \in VerifyKeys \cup {NoKey} :
        ext' = ExtractPayload(wire, k, vk)
                  @@ [session_key |-> k, verify_key |-> vk]
    /\ UNCHANGED <<pp, wire, tamper, img, aud, rng, aead, kx, sg, ds, cap,
                   oth, tmpfiles, thr, qim, frm, doc, cli, api>>

\* ImageSteganography.embed on a carrier, a message and a session key.
ImageEmbed ==
    /\ Idle
    /\ rng + 2 <= MaxDraws
    /\ \E c \in Carriers, m \in Messages, k \in SessionKeys :
        LET r == ImageEmbedCoeffs(c, m, k, OsUrandom(rng + 1, NONCE_SIZE),
                                  OsUrandom(rng + 2, HEADER_SIZE))
        IN  /\ img' = [status |-> IF r.ok THEN "ready" ELSE "too_large",
                       embedded |-> r.ok, stego |-> r.coeffs,
                       message |-> m, key |-> k,
                       wire |-> PreparePayload(m, k, NoKey,
                                               OsUrandom(rng + 1, NONCE_SIZE),
                                               OsUrandom(rng + 2, HEADER_SIZE)).wire,
                       out |-> NoImageOut]
    /\ rng' = rng + 2
    /\ aead' = Append(aead, [op |-> "prepare_payload",
                             nonce |-> OsUrandom(rng + 1, NONCE_SIZE)])
    /\ UNCHANGED <<pp, wire, tamper, ext, aud, kx, sg, ds, cap, oth,
                   tmpfiles, thr, qim, frm, doc, cli, api>>

\* An image nothing was embedded in is handed to the codec.
ImageReceive ==
    /\ Idle
    /\ \E c \in Carriers :
        img' = [status |-> "ready", embedded |-> FALSE, stego |-> c,
                message |-> <<>>, key |-> NoKey, wire |-> <<>>, out |-> NoImageOut]
    /\ UNCHANGED <<pp, wire, tamper, ext, aud, rng, aead, kx, sg, ds, cap,
                   oth, tmpfiles, thr, qim, frm, doc, cli, api>>

\* ImageSteganography.extract on the image at hand.
ImageExtract ==
    /\ img.status = "ready"
    /\ \E k \in SessionKeys :
        img' = [img EXCEPT !.status = "extracted",
                           !.out = ImageExtractCoeffs(img.stego, k) @@ [key |-> k]]
    /\ UNCHANGED <<pp, wire, tamper, ext, aud, rng, aead, kx, sg, ds, cap,
                   oth, tmpfiles, thr, qim, frm, doc, cli, api>>

\* The command-line embed on an audio file (cli.py lines 80-87): the wire
\* payload of prepare_payload goes to AudioSteganography.embed.
AudioEmbed ==
    /\ Idle
    /\ rng + 2 <= MaxDraws
    /\ \E a \in AudioCarriers, m \in Messages, k \in SessionKeys :
        LET prepared == PreparePayload(m, k, NoKey, OsUrandom(rng + 1, NONCE_SIZE),
                                       OsUrandom(rng + 2, HEADER_SIZE))
            payload == prepared.wire
            r == AudioEmbedSamples(a, payload, k)
        IN  /\ aud' = [status |-> IF r.ok THEN "embedded" ELSE "failed",
                       stego |-> r.audio, payload |-> payload, out |-> NoAudioOut]
            /\ aead' = Append(aead, [op |-> "prepare_payload",
                                     nonce |-> prepared.metadata.nonce])
    /\ rng' = rng + 2
    /\ UNCHANGED <<pp, wire, tamper, ext, img, kx, sg, ds, cap, oth,
                   tmpfiles, thr, qim, frm, doc, cli, api>>

\* AudioSteganography.extract on the file embed returned.
AudioExtract ==
    /\ aud.status = "embedded"
    /\ \E k \in SessionKeys :
        aud' = [aud EXCEPT !.status = "extracted",
                           !.out = AudioExtractPayload(aud.stego, k, Len(aud.payload))]
    /\ UNCHANGED <<pp, wire, tamper, ext, img, rng, aead, kx, sg, ds, cap,
                   oth, tmpfiles, thr, qim, frm, doc, cli, api>>

(* ------------------------- KeyManager sessions ------------------------ *)

\* Nothing has been called in this run.
Fresh ==
    /\ Idle /\ rng = 0
    /\ kx.status = "none" /\ sg.status = "none" /\ ds.status = "none"
    /\ tmpfiles = NoFiles /\ thr = NoThreads /\ qim = NoQim /\ frm = NoFrame
    /\ doc = NoDispatch /\ cli = NoCli

\* A sender wraps a session key for a recipient; it may wrap again before
\* anything is sent.
Wrap ==
    /\ kx.status \in {"none", "wrapped"} /\ kx.tamper.kind = "none"
    /\ sg.status = "none" /\ ds.status = "none"
    /\ img.status = "none" /\ aud.status = "none"
    /\ rng + 1 <= MaxDraws
    /\ \E k \in SessionKeys, recipient \in RecipientPrivateKeys,
          e \in EphemeralPrivateKeys :
        LET r == WrapSessionKey(SessionKeyBytes(k), X25519Public(recipient), e,
                                OsUrandom(rng + 1, NONCE_SIZE))
        IN  /\ r.result = "ok"
            /\ kx' = [status |-> "wrapped", session_key |-> SessionKeyBytes(k),
                      recipient |-> recipient, ephemeral |-> e, nonce |-> r.nonce,
                      wrapped |-> r.wrapped, blob |-> r.wrapped,
                      tamper |-> [kind |-> "none", at |-> 0], out |-> NoUnwrapped]
            /\ aead' = Append(aead, [op |-> "wrap_session_key", nonce |-> r.nonce])
    /\ rng' = rng + 1
    /\ UNCHANGED <<pp, wire, tamper, ext, img, aud, sg, ds, cap, oth,
                   tmpfiles, thr, qim, frm, doc, cli, api>>

\* The wrapped blob is changed on its way: one byte inverted, the top bit
\* of one byte flipped, or the ephemeral public value replaced by zeros.
TamperWrapped ==
    /\ kx.status = "wrapped" /\ kx.tamper.kind = "none"
    /\ \/ \E at \in {0, 31, 32, 43, 44, Len(kx.blob) - 1} :
            /\ kx' = [kx EXCEPT !.blob[at + 1] = Flip(@),
                                !.tamper = [kind |-> "byte", at |-> at]]
       \/ \E at \in {0, 31} :
            /\ kx' = [kx EXCEPT !.blob[at + 1] = (@ + 128) % 256,
                                !.tamper = [kind |-> "top_bit", at |-> at]]
       \/ kx' = [kx EXCEPT !.blob = [i \in 1..Len(kx.blob) |->
                                        IF i <= KEY_SIZE THEN 0 ELSE kx.blob[i]],
                           !.tamper = [kind |-> "zero_point", at |-> 0]]
    /\ UNCHANGED <<pp, wire, tamper, ext, img, aud, rng, aead, sg, ds, cap,
                   oth, tmpfiles, thr, qim, frm, doc, cli, api>>

\* A recipient runs unwrap_session_key on the blob that arrived.
Unwrap ==
    /\ kx.status = "wrapped"
    /\ \E private_key \in RecipientPrivateKeys \cup {ClampAlias(kx.recipient)} :
        kx' = [kx EXCEPT !.status = "unwrapped",
                         !.out = UnwrapSessionKey(kx.blob, private_key)
                                    @@ [private_key |-> private_key]]
    /\ UNCHANGED <<pp, wire, tamper, ext, img, aud, rng, aead, sg, ds, cap,
                   oth, tmpfiles, thr, qim, frm, doc, cli, api>>

\* sign_data on some data.
Sign ==
    /\ Fresh
    /\ \E data \in Messages, sk \in SigningKeys :
        sg' = [status |-> "signed", signing_key |-> sk, signed |-> data,
               data |-> data, signature |-> SignData(data, sk),
               tamper |-> [kind |-> "none", at |-> 0], out |-> NoVerified]
    /\ UNCHANGED <<pp, wire, tamper, ext, img, aud, rng, aead, kx, ds, cap,
                   oth, tmpfiles, thr, qim, frm, doc, cli, api>>

\* One byte of the data or of the signature is changed, or the signature
\* loses its last byte.
TamperSigned ==
    /\ sg.status = "signed" /\ sg.tamper.kind = "none"
    /\ \/ \E at \in {1, Len(sg.data)}, d \in {1, 128, 255} :
            /\ at >= 1 /\ at <= Len(sg.data)
            /\ sg' = [sg EXCEPT !.data[at] = (@ + d) % 256,
                                !.tamper = [kind |-> "data", at |-> at]]
       \/ \E at \in {1, SIG_SIZE \div 2, SIG_SIZE}, d \in {1, 128, 255} :
            /\ sg' = [sg EXCEPT !.signature[at] = (@ + d) % 256,
                                !.tamper = [kind |-> "signature", at |-> at]]
       \/ sg' = [sg EXCEPT !.signature = SubSeq(@, 1, SIG_SIZE - 1),
                           !.tamper = [kind |-> "truncated", at |-> SIG_SIZE]]
    /\ UNCHANGED <<pp, wire, tamper, ext, img, aud, rng, aead, kx, ds, cap,
                   oth, tmpfiles, thr, qim, frm, doc, cli, api>>

\* verify_signature on what arrived, under some public-key argument.
Verify ==
    /\ sg.status = "signed"
    /\ \E public_key \in VerifyKeys \cup {MalformedKey} :
        sg' = [sg EXCEPT !.status = "verified",
                         !.out = VerifySignatureOutcome(sg.data, sg.signature, public_key)
                                    @@ [result |-> "done", public_key |-> public_key]]
    /\ UNCHANGED <<pp, wire, tamper, ext, img, aud, rng, aead, kx, ds, cap,
                   oth, tmpfiles, thr, qim, frm, doc, cli, api>>

\* Salts a caller passes to derive_seed.
Salts == {NoSalt, Draw(60, 16)}

\* derive_seed(key, salt): os.urandom is called when no salt is passed.
DeriveSeedCall ==
    /\ Fresh
    /\ \E k \in SessionKeys, salt \in Salts :
        /\ ds' = [status |-> "derived", key |-> SessionKeyBytes(k), salt |-> salt,
                  first |-> DeriveSeed(SessionKeyBytes(k), salt, OsUrandom(rng + 1, 16)),
                  again_salt |-> NoSalt, again |-> PyBytes(<<>>)]
        /\ rng' = IF salt = NoSalt THEN rng + 1 ELSE rng
    /\ UNCHANGED <<pp, wire, tamper, ext, img, aud, aead, kx, sg, cap, oth,
                   tmpfiles, thr, qim, frm, doc, cli, api>>

\* The salt a caller holds after a derive_seed call: the one it passed, or
\* the one the call returned beside the seed, if it returned one.
SaltHeld ==
    IF ds.salt # NoSalt THEN ds.salt
    ELSE IF ds.first.type = "tuple" THEN ds.first.value[2]
    ELSE NoSalt

\* The caller derives the seed again, later, with the salt it holds.
DeriveSeedAgain ==
    /\ ds.status = "derived" /\ rng + 1 <= MaxDraws
    /\ ds' = [ds EXCEPT !.status = "again", !.again_salt = SaltHeld,
                        !.again = DeriveSeed(ds.key, SaltHeld, OsUrandom(rng + 1, 16))]
    /\ rng' = IF SaltHeld = NoSalt THEN rng + 1 ELSE rng
    /\ UNCHANGED <<pp, wire, tamper, ext, img, aud, aead, kx, sg, cap, oth,
                   tmpfiles, thr, qim, frm, doc, cli, api>>

(* --------------------------- codec contract --------------------------- *)

\* analyze_capacity of one of the four codecs on one of its carriers;
\* `analysable` notes whether the carrier is one the codec can analyse (a
\* video ffprobe reads, a document whose type is PDF or DOCX).
AnalyzeCapacity ==
    /\ Fresh
    /\ \/ \E c \in Carriers :
            /\ cap' = [status |-> "done", codec |-> "image", analysable |-> TRUE,
                       raised |-> FALSE, report |-> ImageAnalyzeCapacity(c)]
            /\ UNCHANGED tmpfiles
       \/ \E a \in AudioCarriers :
            /\ cap' = [status |-> "done", codec |-> "audio",
                       analysable |-> a.loadable] @@ AudioAnalyzeCapacity(a)
            /\ UNCHANGED tmpfiles
       \/ \E v \in VideoCarriers :
            LET r == VideoAnalyzeCapacity(v)
            IN  /\ cap' = [status |-> "done", codec |-> "video",
                           analysable |-> v.readable,
                           raised |-> r.raised, report |-> r.report]
                /\ tmpfiles' = tmpfiles \cup r.left
       \/ \E d \in Documents, t \in DocumentTypes :
            /\ cap' = [status |-> "done", codec |-> "document",
                       analysable |-> DocumentFormat(d, t) # "unsupported"]
                          @@ DocumentAnalyzeCapacity(d, t)
            /\ UNCHANGED tmpfiles
    /\ UNCHANGED <<pp, wire, tamper, ext, img, aud, rng, aead, kx, sg, ds,
                   oth, thr, qim, frm, doc, cli, api>>

\* Payloads handed to the video and document codecs: 5 and 20 bytes.
OtherPayloads == {Const(5, 7), Const(20, 7)}

\* embed of the video or the document codec on a carrier and a payload;
\* the capacity analyze_capacity reports for the carrier is noted.
OtherEmbed ==
    /\ Fresh
    /\ \E payload \in OtherPayloads, k \in SessionKeys :
        \/ \E v \in VideoCarriers :
            LET r == VideoEmbed(v, payload, k)
            IN  /\ oth' = [status |-> "done", codec |-> "video", payload |-> payload,
                           capacity_bytes |->
                               VideoAnalyzeCapacity(v).report.capacity_bytes,
                           result |-> r.result, hidden |-> r.hidden,
                           document_type |-> NoType,
                           carrier |-> r.carrier, out |-> NoOtherOut]
                /\ tmpfiles' = tmpfiles \cup r.left
        \/ \E d \in Documents, t \in DocumentTypes :
            LET r == DocumentEmbed(d, payload, k, t)
            IN  /\ oth' = [status |-> "done", codec |-> "document", payload |-> payload,
                           capacity_bytes |->
                               DocumentAnalyzeCapacity(d, t).report.capacity_bytes,
                           result |-> r.result, hidden |-> r.hidden,
                           document_type |-> t,
                           carrier |-> r.carrier, out |-> NoOtherOut]
                /\ tmpfiles' = tmpfiles \cup r.left
    /\ UNCHANGED <<pp, wire, tamper, ext, img, aud, rng, aead, kx, sg, ds,
                   cap, thr, qim, frm, doc, cli, api>>

\* extract of the same codec on the carrier embed returned, with the same
\* document_type.
OtherExtract ==
    /\ oth.status = "done" /\ oth.result = "ok"
    /\ \E k \in SessionKeys :
        LET r == IF oth.codec = "video"
                 THEN VideoExtract(oth.carrier, k, Len(oth.payload))
                 ELSE DocumentExtract(oth.carrier, k, oth.document_type)
        IN  /\ oth' = [oth EXCEPT !.status = "extracted",
                                  !.out = [result |-> r.result,
                                           returned |-> r.returned,
                                           data |-> r.data]]
            /\ tmpfiles' = tmpfiles \cup r.left
    /\ UNCHANGED <<pp, wire, tamper, ext, img, aud, rng, aead, kx, sg, ds,
                   cap, thr, qim, frm, doc, cli, api>>

(* ----------------------- concurrent invocations ----------------------- *)

\* An invocation that keeps its locals in attributes of one shared object.
Frame_Shared(t) == 1

\* Where the locals of thread t's invocation live: Python gives every call
\* a frame of its own; the methods are static or read self only, and the
\* modules keep no globals but the logger.
Frame(t) == t

\* Small decompositions for the threads: two and three coefficients in
\* each level-2 subband.
ThreadCarriers ==
    {<<<<2048, 1900>>, <<<<12, -7>>, <<33, -52>>, <<0, 5>>>>, <<<<>>, <<>>, <<>>>>>>,
     <<<<1000, 1200, 1400>>, <<<<1, 2, 3>>, <<-90, 41, 130>>, <<4, 5, 6>>>>,
       <<<<>>, <<>>, <<>>>>>>}

ThreadBits == {<<PyInt(0), PyInt(1)>>, <<PyInt(1), PyInt(1)>>}

\* Thread t enters prepare_payload(message, session_key) or
\* _embed_in_coeffs(coeffs, payload_bits, key) with arguments of its own.
ThreadCall(t) ==
    /\ Idle /\ kx.status = "none" /\ sg.status = "none" /\ ds.status = "none"
    /\ thr.calls[t].pc = "none"
    /\ \/ \E m \in Messages, k \in SessionKeys :
            thr' = [calls |-> [thr.calls EXCEPT ![t] =
                                 [NoCall EXCEPT !.pc = "compress",
                                                !.op = "prepare_payload",
                                                !.message = m, !.session_key = k]],
                    frames |-> [thr.frames EXCEPT ![Frame(t)] =
                                 [NoLocals EXCEPT !.message = m, !.session_key = k]]]
       \/ \E c \in ThreadCarriers, bits \in ThreadBits :
            thr' = [calls |-> [thr.calls EXCEPT ![t] =
                                 [NoCall EXCEPT !.pc = "copy",
                                                !.op = "_embed_in_coeffs",
                                                !.coeffs = c, !.payload_bits = bits]],
                    frames |-> [thr.frames EXCEPT ![Frame(t)] =
                                 [NoLocals EXCEPT !.coeffs = c, !.payload_bits = bits]]]
    /\ UNCHANGED <<pp, wire, tamper, ext, img, aud, rng, aead, kx, sg, ds, cap, oth,
                   tmpfiles, qim, frm, doc, cli, api>>

\* One statement of prepare_payload in thread t: line 184 (compress), 187
\* (nonce), 191 (encrypt), 211-212 (Reed-Solomon), 215 (header), 218-220
\* (concatenate and return).
PrepareStep(t) ==
    LET f  == Frame(t)
        l  == thr.frames[f]
        pc == thr.calls[t].pc
        Go(next, locals) ==
            thr' = [calls |-> [thr.calls EXCEPT ![t].pc = next],
                    frames |-> [thr.frames EXCEPT ![f] = locals]]
        Drew(next, locals) ==
            thr' = [calls |-> [thr.calls EXCEPT ![t].pc = next,
                                                ![t].draws = Append(@, rng + 1)],
                    frames |-> [thr.frames EXCEPT ![f] = locals]]
    IN  /\ thr.calls[t].op = "prepare_payload"
        /\ \/ /\ pc = "compress"
              /\ Go("nonce", [l EXCEPT !.compressed = GzipCompress(l.message)])
              /\ UNCHANGED <<rng, aead>>
           \/ /\ pc = "nonce" /\ rng + 1 <= MaxDraws
              /\ Drew("encrypt", [l EXCEPT !.nonce = OsUrandom(rng + 1, NONCE_SIZE)])
              /\ rng' = rng + 1
              /\ UNCHANGED aead
           \/ /\ pc = "encrypt"
              /\ Go("rs", [l EXCEPT !.encrypted =
                              AESGCMEncrypt(l.session_key, l.nonce, l.compressed)])
              /\ aead' = Append(aead, [op |-> "prepare_payload", nonce |-> l.nonce])
              /\ UNCHANGED rng
           \/ /\ pc = "rs"
              /\ Go("header", [l EXCEPT !.encoded_payload = RSEncode(l.encrypted)])
              /\ UNCHANGED <<rng, aead>>
           \/ /\ pc = "header" /\ rng + 1 <= MaxDraws
              /\ Drew("return", [l EXCEPT !.header = OsUrandom(rng + 1, HEADER_SIZE)])
              /\ rng' = rng + 1
              /\ UNCHANGED aead
        /\ UNCHANGED <<pp, wire, tamper, ext, img, aud, kx, sg, ds, cap, oth,
                       tmpfiles, qim, frm, doc, cli, api>>

\* One statement of _embed_in_coeffs in thread t: lines 52-62 (copy,
\* flatten, capacity check), one turn of the loop of lines 65-73, lines
\* 76-79 (write the subband back into coeffs).
EmbedStep(t) ==
    LET f  == Frame(t)
        l  == thr.frames[f]
        pc == thr.calls[t].pc
        Go(next, locals) ==
            thr' = [calls |-> [thr.calls EXCEPT ![t].pc = next],
                    frames |-> [thr.frames EXCEPT ![f] = locals]]
    IN  /\ thr.calls[t].op = "_embed_in_coeffs"
        /\ \/ /\ pc = "copy"
              /\ Go(IF Len(l.payload_bits) > Len(l.coeffs[2][2]) THEN "raise" ELSE "loop",
                    [l EXCEPT !.flat_coeffs = l.coeffs[2][2], !.i = 1])
           \/ /\ pc = "loop" /\ l.i <= Len(l.payload_bits)
              /\ Go("loop",
                    [l EXCEPT !.flat_coeffs[l.i] =
                                 IF PyEqualsZero(l.payload_bits[l.i])
                                 THEN Q0(l.flat_coeffs[l.i]) ELSE Q1(l.flat_coeffs[l.i]),
                              !.i = l.i + 1])
           \/ /\ pc = "loop" /\ l.i > Len(l.payload_bits)
              /\ Go("return",
                    [l EXCEPT !.coeffs[2] = <<l.coeffs[2][1], l.flat_coeffs,
                                              l.coeffs[2][3]>>])
        /\ UNCHANGED <<pp, wire, tamper, ext, img, aud, rng, aead, kx, sg, ds, cap, oth,
                       tmpfiles, qim, frm, doc, cli, api>>

\* Thread t returns: final_payload and metadata (lines 218-220), or the
\* modified coeffs (line 81).
ThreadReturn(t) ==
    LET l == thr.frames[Frame(t)]
    IN  /\ thr.calls[t].pc = "return"
        /\ thr' = [thr EXCEPT
                     !.calls[t].pc = "done",
                     !.calls[t].ret =
                        IF thr.calls[t].op = "prepare_payload"
                        THEN [wire |-> l.header \o l.encoded_payload,
                              metadata |-> [version |-> 1, nonce |-> l.nonce,
                                            has_signature |-> FALSE]]
                        ELSE [ok |-> TRUE, coeffs |-> l.coeffs]]
        /\ UNCHANGED <<pp, wire, tamper, ext, img, aud, rng, aead, kx, sg, ds, cap, oth,
                       tmpfiles, qim, frm, doc, cli, api>>

(* --------------------------------- API -------------------------------- *)

Response(request, user, status) ==
    [request |-> request, user |-> user, status |-> status,
     key_read |-> 0, key_owner |-> 0]

\* get_object() on MediaFileViewSet: the queryset holds the rows of the
\* requesting user only (get_queryset, lines 303-304).
OwnFile(user, f) == api.files[f].exists /\ api.files[f].user = user

\* POST /keys/ (CryptoKeyViewSet.perform_create): a CryptoKey row of the
\* requesting user under a new id.
KeyCreate ==
    /\ \E user \in ApiUsers, k \in ApiKeyIds :
        /\ api.keys[k] = 0
        /\ api' = [api EXCEPT !.keys[k] = user,
                              !.last = Response("POST /keys/", user, 201)]
    /\ UNCHANGED <<pp, wire, tamper, ext, img, aud, rng, aead, kx, sg, ds, cap, oth,
                   tmpfiles, thr, qim, frm, doc, cli>>

\* DELETE /keys/{id}/: the queryset holds the keys of the requesting user;
\* MediaFile.key is on_delete=SET_NULL.
KeyDestroy ==
    /\ \E user \in ApiUsers, k \in ApiKeyIds :
        IF api.keys[k] # user
        THEN api' = [api EXCEPT !.last = Response("DELETE /keys/", user, 404)]
        ELSE api' = [api EXCEPT
                        !.keys[k] = 0,
                        !.files = [f \in ApiFileIds |->
                                      IF api.files[f].key = k
                                      THEN [api.files[f] EXCEPT !.key = 0]
                                      ELSE api.files[f]],
                        !.last = Response("DELETE /keys/", user, 204)]
    /\ UNCHANGED <<pp, wire, tamper, ext, img, aud, rng, aead, kx, sg, ds, cap, oth,
                   tmpfiles, thr, qim, frm, doc, cli>>

\* POST /files/: perform_create calls serializer.save(user=...), which
\* puts user into validated_data; MediaFileSerializer.create then calls
\* MediaFile.objects.create(user=user, **validated_data), `user` twice:
\* TypeError before any row is written.
FileCreate ==
    /\ \E user \in ApiUsers :
        api' = [api EXCEPT !.last = Response("POST /files/", user, 500)]
    /\ UNCHANGED <<pp, wire, tamper, ext, img, aud, rng, aead, kx, sg, ds, cap, oth,
                   tmpfiles, thr, qim, frm, doc, cli>>

\* PUT or PATCH /files/{id}/ with or without a key_id: the serializer has
\* no update of its own, so ModelSerializer.update sets every validated
\* field on the row, key_id among them, and saves.  A key_id with no
\* CryptoKey row fails the foreign-key constraint.
FileUpdate ==
    /\ \E user \in ApiUsers, f \in ApiFileIds, key_id \in ApiKeyIds \cup {0} :
        IF ~OwnFile(user, f)
        THEN api' = [api EXCEPT !.last = Response("PATCH /files/", user, 404)]
        ELSE IF key_id = 0
        THEN api' = [api EXCEPT !.last = Response("PATCH /files/", user, 200)]
        ELSE IF api.keys[key_id] = 0
        THEN api' = [api EXCEPT !.last = Response("PATCH /files/", user, 500)]
        ELSE api' = [api EXCEPT !.files[f].key = key_id,
                                !.last = Response("PATCH /files/", user, 200)]
    /\ UNCHANGED <<pp, wire, tamper, ext, img, aud, rng, aead, kx, sg, ds, cap, oth,
                   tmpfiles, thr, qim, frm, doc, cli>>

\* POST /files/{id}/embed/ with a message (lines 322-389): the key is
\* looked up among the keys of the requesting user and its file is read;
\* `embedded` says whether handler.embed returned or raised.  When it
\* raises, the temporary file of line 364 is not removed.
FileEmbed ==
    /\ \E user \in ApiUsers, f \in ApiFileIds, key_id \in ApiKeyIds \cup {0},
          embedded \in BOOLEAN :
        IF ~OwnFile(user, f)
        THEN /\ api' = [api EXCEPT !.last = Response("POST /files/embed/", user, 404)]
             /\ UNCHANGED tmpfiles
        ELSE IF key_id = 0
        THEN /\ api' = [api EXCEPT !.last = Response("POST /files/embed/", user, 400)]
             /\ UNCHANGED tmpfiles
        ELSE IF api.keys[key_id] # user
        THEN /\ api' = [api EXCEPT !.last = Response("POST /files/embed/", user, 404)]
             /\ UNCHANGED tmpfiles
        ELSE IF embedded
        THEN /\ api' = [api EXCEPT
                           !.files[f].watermarked_file = TRUE,
                           !.files[f].key = key_id,
                           !.last = [Response("POST /files/embed/", user, 200)
                                        EXCEPT !.key_read = key_id,
                                               !.key_owner = api.keys[key_id]]]
             /\ UNCHANGED tmpfiles
        ELSE /\ api' = [api EXCEPT
                           !.last = [Response("POST /files/embed/", user, 500)
                                        EXCEPT !.key_read = key_id,
                                               !.key_owner = api.keys[key_id]]]
             /\ tmpfiles' = tmpfiles \cup {"api.embed.temp_file"}
    /\ UNCHANGED <<pp, wire, tamper, ext, img, aud, rng, aead, kx, sg, ds, cap, oth,
                   thr, qim, frm, doc, cli>>

\* POST /files/{id}/extract/ (lines 391-430): the file of media_file.key
\* is read, whoever owns that key; `extracted` says whether the codec and
\* extract_payload returned or raised.
FileExtract ==
    /\ \E user \in ApiUsers, f \in ApiFileIds, extracted \in BOOLEAN :
        IF ~OwnFile(user, f)
        THEN api' = [api EXCEPT !.last = Response("POST /files/extract/", user, 404)]
        ELSE IF ~api.files[f].watermarked_file \/ api.files[f].key = 0
        THEN api' = [api EXCEPT !.last = Response("POST /files/extract/", user, 400)]
        ELSE api' = [api EXCEPT
                        !.last = [Response("POST /files/extract/", user,
                                           IF extracted THEN 200 ELSE 500)
                                     EXCEPT !.key_read = api.files[f].key,
                                            !.key_owner = api.keys[api.files[f].key]]]
    /\ UNCHANGED <<pp, wire, tamper, ext, img, aud, rng, aead, kx, sg, ds, cap, oth,
                   tmpfiles, thr, qim, frm, doc, cli>>

(* ---------------------------- command line --------------------------- *)

\* detect_file_type(file_path): the lower-cased extension decides.
DetectFileType(extension) ==
    IF extension \in {".jpg", ".jpeg", ".png", ".bmp", ".tiff", ".webp"} THEN "image"
    ELSE IF extension \in {".mp3", ".wav", ".ogg", ".flac", ".aac"} THEN "audio"
    ELSE IF extension \in {".mp4", ".avi", ".mov", ".mkv", ".webm"} THEN "video"
    ELSE IF extension = ".pdf" THEN "pdf"
    ELSE IF extension \in {".docx", ".doc"} THEN "docx"
    ELSE "ValueError"

\* get_steganography_handler(file_type)
GetSteganographyHandler(file_type) ==
    IF file_type = "image" THEN "ImageSteganography"
    ELSE IF file_type = "audio" THEN "AudioSteganography"
    ELSE IF file_type = "video" THEN "VideoSteganography"
    ELSE IF file_type \in {"pdf", "docx"} THEN "DocumentSteganography"
    ELSE "ValueError"

\* Extensions of the input files of the command line.
CliExtensions == {".png", ".wav", ".mp4", ".pdf", ".docx", ".doc", ".txt"}

\* The contents an input file of an extension has here.  A .doc file is a
\* Word 97 document, which does not start with b'PK'.
CliFiles(extension) ==
    IF extension = ".png" THEN {GrayCarrier, TexturedCarrier}
    ELSE IF extension = ".wav" THEN {x \in AudioCarriers : x.loadable}
    ELSE IF extension = ".mp4" THEN VideoCarriers
    ELSE IF extension = ".pdf" THEN {x \in Documents : x.type = "pdf"}
    ELSE IF extension = ".docx" THEN {x \in Documents : x.type = "docx"}
    ELSE {x \in Documents : x.type = "other"}

\* handler.embed(input_data, payload, key) as embed_command calls it: the
\* three codecs other than the image codec take the key as `seed`.
HandlerEmbed(handler, input_data, payload, key, rnd_nonce, rnd_header) ==
    IF handler = "ImageSteganography"
    THEN LET r == ImageEmbedCoeffs(input_data, payload, key, rnd_nonce, rnd_header)
         IN  [result |-> IF r.ok THEN "ok" ELSE "ValueError", output |-> r.coeffs,
              left |-> NoFiles, draws |-> 2]
    ELSE IF handler = "AudioSteganography"
    THEN LET r == AudioEmbedSamples(input_data, payload, key)
         IN  [result |-> IF r.ok THEN "ok" ELSE "CouldntDecodeError",
              output |-> r.audio, left |-> NoFiles, draws |-> 0]
    ELSE IF handler = "VideoSteganography"
    THEN LET r == VideoEmbed(input_data, payload, key)
         IN  [result |-> r.result, output |-> r.carrier, left |-> r.left, draws |-> 0]
    ELSE LET r == DocumentEmbed(input_data, payload, key, NoType)
         IN  [result |-> r.result, output |-> r.carrier, left |-> r.left, draws |-> 0]

\* The positional parameters after self that each extract accepts:
\* ImageSteganography.extract(stego_data, key=None),
\* AudioSteganography.extract(audio_data, seed, payload_size),
\* VideoSteganography.extract(video_data, seed, payload_size),
\* DocumentSteganography.extract(document_data, seed, document_type=None).
ExtractParameters ==
    [ImageSteganography |-> 2, AudioSteganography |-> 3,
     VideoSteganography |-> 3, DocumentSteganography |-> 3]

\* handler.extract(input_data, key, args.payload_size) as extract_command
\* calls it: three positional arguments.  A method with fewer parameters
\* raises TypeError; the document codec receives the payload size as its
\* document_type.
HandlerExtract(handler, input_data, key, payload_size) ==
    IF ExtractParameters[handler] < 3
    THEN [result |-> "TypeError", returned |-> FALSE, data |-> <<>>, left |-> NoFiles]
    ELSE IF handler = "AudioSteganography"
    THEN AudioExtractPayload(input_data, key, payload_size) @@ [left |-> NoFiles]
    ELSE IF handler = "VideoSteganography"
    THEN VideoExtract(input_data, key, payload_size)
    ELSE DocumentExtract(input_data, key, payload_size)

\* embed_command (lines 52-97): the message is prepared with the key, the
\* handler of the file's type embeds the prepared payload, the output file
\* is written.  Any exception is logged and the command exits with 1; the
\* output file is written only after a successful embed.
CliEmbed ==
    /\ Fresh
    /\ rng + 4 <= MaxDraws
    /\ \E extension \in CliExtensions, m \in Messages, k \in SessionKeys :
       \E input_data \in CliFiles(extension) :
        LET prepared  == PreparePayload(m, k, NoKey, OsUrandom(rng + 1, NONCE_SIZE),
                                        OsUrandom(rng + 2, HEADER_SIZE))
            payload   == prepared.wire
            file_type == DetectFileType(extension)
            handler   == GetSteganographyHandler(file_type)
            first     == [op |-> "prepare_payload", nonce |-> prepared.metadata.nonce]
        IN  IF file_type = "ValueError" \/ handler = "ValueError"
            THEN /\ cli' = [NoCli EXCEPT !.status = "embed_failed", !.ext = extension,
                                         !.message = m, !.key = k, !.payload = payload,
                                         !.result = "ValueError"]
                 /\ rng' = rng + 2
                 /\ aead' = Append(aead, first)
                 /\ UNCHANGED tmpfiles
            ELSE LET r == HandlerEmbed(handler, input_data, payload, k,
                                       OsUrandom(rng + 3, NONCE_SIZE),
                                       OsUrandom(rng + 4, HEADER_SIZE))
                 IN  /\ cli' = [status |-> IF r.result = "ok" THEN "embedded"
                                           ELSE "embed_failed",
                                ext |-> extension, file_type |-> file_type,
                                handler |-> handler, message |-> m, key |-> k,
                                payload |-> payload, result |-> r.result,
                                output |-> r.output, out |-> NoCliOut]
                     /\ rng' = rng + 2 + r.draws
                     /\ aead' = IF r.draws = 0 THEN Append(aead, first)
                                ELSE aead \o <<first,
                                               [op |-> "prepare_payload",
                                                nonce |-> OsUrandom(rng + 3, NONCE_SIZE)]>>
                     /\ tmpfiles' = tmpfiles \cup r.left
    /\ UNCHANGED <<pp, wire, tamper, ext, img, aud, kx, sg, ds, cap, oth,
                   thr, qim, frm, doc, api>>

\* extract_command (lines 99-135) on the output file of embed_command,
\* which has the extension of the input file here: the handler's extract
\* with three arguments, then extract_payload with the key of the key
\* file.  Any exception is logged and the command exits with 1.
CliExtract ==
    /\ cli.status = "embedded"
    /\ \E k \in SessionKeys :
        LET file_type == DetectFileType(cli.ext)
            handler   == GetSteganographyHandler(file_type)
            x == HandlerExtract(handler, cli.output, k, PayloadSizeArgument)
            r == ExtractPayload(x.data, k, NoKey)
        IN  /\ cli' = [cli EXCEPT !.status = "extracted",
                                  !.out = IF x.result # "ok"
                                          THEN [key |-> k, handler |-> x.result,
                                                result |-> x.result,
                                                returned |-> FALSE, message |-> <<>>]
                                          ELSE [key |-> k, handler |-> "ok",
                                                result |-> r.result,
                                                returned |-> r.returned,
                                                message |-> r.message]]
            /\ tmpfiles' = tmpfiles \cup x.left
    /\ UNCHANGED <<pp, wire, tamper, ext, img, aud, rng, aead, kx, sg, ds, cap, oth,
                   thr, qim, frm, doc, api>>

(* ------------------- DocumentSteganography dispatch ------------------- *)

\* Documents as they come, and documents that already carry a payload.
DispatchDocuments ==
    Documents
      \cup {DocumentEmbed(d, Const(5, 7), NoKey, NoType).carrier :
               d \in {x \in Documents : x.parses}}

\* One of embed, extract and analyze_capacity is called on a document and
\* a document_type; the three calls of a run get the same document bytes
\* and the same document_type.
DocumentCall ==
    /\ Idle /\ rng = 0
    /\ kx.status = "none" /\ sg.status = "none" /\ ds.status = "none"
    /\ thr = NoThreads /\ qim = NoQim /\ frm = NoFrame /\ cli = NoCli
    /\ \E d \in DispatchDocuments, t \in DocumentTypes, payload \in OtherPayloads,
          op \in {"embed", "extract", "analyze_capacity"} :
        /\ doc.status = "none" \/ (doc.document = d /\ doc.document_type = t
                                   /\ doc.payload = payload)
        /\ op \notin doc.done
        /\ LET e == DocumentEmbed(d, payload, NoKey, t)
               x == DocumentExtract(d, NoKey, t)
               a == DocumentAnalyzeCapacity(d, t)
           IN  /\ doc' = [status |-> "called", document |-> d, document_type |-> t,
                          payload |-> payload, done |-> doc.done \cup {op},
                          embed |-> IF op = "embed"
                                    THEN [result |-> e.result, carrier |-> e.carrier]
                                    ELSE doc.embed,
                          extract |-> IF op = "extract"
                                      THEN [result |-> x.result, data |-> x.data]
                                      ELSE doc.extract,
                          analyze_capacity |-> IF op = "analyze_capacity" THEN a
                                               ELSE doc.analyze_capacity]
               /\ tmpfiles' = tmpfiles \cup (IF op = "embed" THEN e.left
                                             ELSE IF op = "extract" THEN x.left
                                             ELSE NoFiles)
    /\ UNCHANGED <<pp, wire, tamper, ext, img, aud, rng, aead, kx, sg, ds, cap, oth,
                   thr, qim, frm, cli, api>>

(* ----------------------- from pixels to pixels ------------------------ *)

\* Images whose luma is constant on every 2x2 cell.  A 4x4 block of the
\* luma plane is then given by four values <<top-left, top-right,
\* bottom-left, bottom-right>>, the blocks in row-major order; the chroma
\* planes have one value for each block.  All level-1 detail coefficients
\* of such an image are zero, and the level-2 coefficients are whole
\* numbers.
FrameImages ==
    {[y |-> <<<<128, 128, 128, 128>>, <<128, 128, 128, 128>>, <<128, 128, 128, 128>>>>,
      cb |-> <<128, 128, 128>>, cr |-> <<128, 128, 128>>],
     [y |-> <<<<100, 120, 90, 130>>, <<10, 250, 40, 200>>, <<77, 77, 99, 99>>>>,
      cb |-> <<90, 140, 128>>, cr |-> <<200, 60, 128>>],
     [y |-> <<<<255, 255, 255, 255>>, <<250, 255, 250, 255>>, <<0, 0, 3, 0>>>>,
      cb |-> <<128, 120, 128>>, cr |-> <<128, 130, 128>>],
     [y |-> <<<<64, 64, 64, 64>>, <<32, 96, 96, 32>>>>,
      cb |-> <<100, 100>>, cr |-> <<150, 150>>]}

\* pywt.wavedec2(y_array, 'haar', level=2) on such a plane:
\* [cA2, (cH2, cV2, cD2), (cH1, cV1, cD1)], the coefficients in units of
\* 1/CoeffUnits.  cH2 is the difference of the upper and the lower half of
\* a block, cV2 that of its left and its right half.
Wavedec2(y) ==
    <<[i \in 1..Len(y) |-> CoeffUnits * (y[i][1] + y[i][2] + y[i][3] + y[i][4])],
      <<[i \in 1..Len(y) |-> CoeffUnits * (y[i][1] + y[i][2] - y[i][3] - y[i][4])],
        [i \in 1..Len(y) |-> CoeffUnits * (y[i][1] - y[i][2] + y[i][3] - y[i][4])],
        [i \in 1..Len(y) |-> CoeffUnits * (y[i][1] - y[i][2] - y[i][3] + y[i][4])]>>,
      <<Const(4 * Len(y), 0), Const(4 * Len(y), 0), Const(4 * Len(y), 0)>>>>

\* np.clip(value, 0, 255).astype(np.uint8) of the sample num / den: what
\* is above 255 or below 0 is cut off, the fraction is dropped.
ClipToUint8(num, den) ==
    IF num < 0 THEN 0
    ELSE IF num > 255 * den THEN 255
    ELSE num \div den

\* pywt.waverec2(coeffs, 'haar') followed by line 154, for coefficients
\* whose level-1 details are zero: each quarter of a block is
\* (cA2 +- cH2 +- cV2 +- cD2) / 4.
Waverec2Clipped(coeffs) ==
    LET den == 4 * CoeffUnits
        A == coeffs[1]
        H == coeffs[2][1]
        V == coeffs[2][2]
        D == coeffs[2][3]
    IN  [i \in 1..Len(A) |->
           <<ClipToUint8(A[i] + H[i] + V[i] + D[i], den),
             ClipToUint8(A[i] + H[i] - V[i] - D[i], den),
             ClipToUint8(A[i] - H[i] + V[i] - D[i], den),
             ClipToUint8(A[i] - H[i] - V[i] + D[i], den)>>]

\* What _embed_in_coeffs is handed as payload_bits: lists of 0/1 values of
\* up to three bits, and the pair (final_payload, metadata) that line 127
\* puts there.
FrameBits ==
    {<<>>} \cup {<<PyInt(a)>> : a \in {0, 1}}
           \cup {<<PyInt(a), PyInt(b)>> : a, b \in {0, 1}}
           \cup {<<PyInt(a), PyInt(b), PyInt(c)>> : a, b, c \in {0, 1}}
           \cup {<<PyBytes(<<0>>), PyDict([version |-> 1])>>}

\* ImageSteganography.embed from line 136 on, for a given payload_bits:
\* split, decompose, _embed_in_coeffs, inverse transform, clip, merge with
\* cb and cr.  `modified` is what _embed_in_coeffs returned, `stego` the
\* YCbCr image of line 160 (the conversion to RGB and the PNG encoding are
\* not followed).
FrameEmbed ==
    /\ Fresh
    /\ \E image \in FrameImages, payload_bits \in FrameBits :
        LET coeffs == Wavedec2(image.y)
            r      == EmbedInCoeffs(coeffs, payload_bits)
        IN  frm' = [status |-> IF r.ok THEN "embedded" ELSE "too_large",
                    image |-> image, payload_bits |-> payload_bits,
                    coeffs |-> coeffs, modified |-> r.coeffs,
                    stego |-> [y |-> Waverec2Clipped(r.coeffs),
                               cb |-> image.cb, cr |-> image.cr],
                    read |-> <<>>]
    /\ UNCHANGED <<pp, wire, tamper, ext, img, aud, rng, aead, kx, sg, ds, cap, oth,
                   tmpfiles, thr, qim, doc, cli, api>>

\* _extract_from_coeffs on the decomposition of the stego image, for as
\* many bits as were embedded (lines 189-198, 83-112).
FrameExtract ==
    /\ frm.status = "embedded"
    /\ frm' = [frm EXCEPT !.status = "extracted",
                          !.read = ExtractFromCoeffs(Wavedec2(frm.stego.y),
                                                     Len(frm.payload_bits))]
    /\ UNCHANGED <<pp, wire, tamper, ext, img, aud, rng, aead, kx, sg, ds, cap, oth,
                   tmpfiles, thr, qim, doc, cli, api>>

(* ------------------------ one coefficient, one bit -------------------- *)

\* Coefficient values from -2 * delta to 2 * delta in steps of 1/CoeffUnits:
\* the multiples of delta, the points half-way between them, and what lies
\* between.
QimCoeffValues == (0 - 2 * Step)..(2 * Step)

\* A decomposition whose embedding subband is the single coefficient c.
QimCoeffs(c) == <<<<0>>, <<<<0>>, <<c>>, <<0>>>>, <<<<>>, <<>>, <<>>>>>>

\* _embed_in_coeffs on one coefficient and one bit (lines 65-73).
QimEmbed ==
    /\ Fresh
    /\ \E c \in QimCoeffValues, b \in {0, 1} :
        qim' = [status |-> "embedded", coeff |-> c, bit |-> b,
                embedded |-> EmbedInCoeffs(QimCoeffs(c), <<PyInt(b)>>).coeffs[2][2][1],
                extracted |-> 0]
    /\ UNCHANGED <<pp, wire, tamper, ext, img, aud, rng, aead, kx, sg, ds, cap, oth,
                   tmpfiles, thr, frm, doc, cli, api>>

\* _extract_from_coeffs on the replaced coefficient (lines 96-110).
QimExtract ==
    /\ qim.status = "embedded"
    /\ qim' = [qim EXCEPT !.status = "extracted",
                          !.extracted = ExtractFromCoeffs(QimCoeffs(qim.embedded), 1)[1]]
    /\ UNCHANGED <<pp, wire, tamper, ext, img, aud, rng, aead, kx, sg, ds, cap, oth,
                   tmpfiles, thr, frm, doc, cli, api>>

\* The calls keep nothing: the next run starts afresh.
Reset ==
    /\ ~Fresh
    /\ pp' = NoPrepared /\ wire' = <<>> /\ tamper' = NoTamper /\ ext' = NoExt
    /\ img' = NoImage /\ aud' = NoAudio
    /\ rng' = 0 /\ aead' = <<>>
    /\ kx' = NoKeyExchange /\ sg' = NoSigned /\ ds' = NoDerived
    /\ cap' = NoCapacity /\ oth' = NoOther
    /\ tmpfiles' = NoFiles
    /\ thr' = NoThreads
    /\ qim' = NoQim
    /\ frm' = NoFrame
    /\ doc' = NoDispatch
    /\ cli' = NoCli
    /\ api' = NoApi

Next ==
    \/ Prepare \/ CorruptBody \/ MutateNonceField \/ Extract
    \/ AudioEmbed \/ AudioExtract
    \/ ImageEmbed \/ ImageReceive \/ ImageExtract
    \/ AnalyzeCapacity \/ OtherEmbed \/ OtherExtract
    \/ Reset

Spec == Init /\ [][Next]_vars

\* The KeyManager operations on their own.
KeyNext ==
    \/ Wrap \/ TamperWrapped \/ Unwrap
    \/ Sign \/ TamperSigned \/ Verify
    \/ DeriveSeedCall \/ DeriveSeedAgain
    \/ Reset

KeySpec == Init /\ [][KeyNext]_vars

\* The calls that encrypt, in any order.
EncryptNext == Prepare \/ Wrap \/ Reset

EncryptSpec == Init /\ [][EncryptNext]_vars

\* Two threads inside the toolkit at the same time, their statements
\* interleaved in every order.
ThreadNext ==
    \/ \E t \in Threads :
          ThreadCall(t) \/ PrepareStep(t) \/ EmbedStep(t) \/ ThreadReturn(t)
    \/ Reset

ThreadSpec == Init /\ [][ThreadNext]_vars

\* The QIM rule on single coefficients.
QimNext == QimEmbed \/ QimExtract \/ Reset

QimSpec == Init /\ [][QimNext]_vars

\* Images followed from their pixels through embed and back.
FrameNext == FrameEmbed \/ FrameExtract \/ Reset

FrameSpec == Init /\ [][FrameNext]_vars

\* The three operations of DocumentSteganography on the same input.
DispatchNext == DocumentCall \/ Reset

DispatchSpec == Init /\ [][DispatchNext]_vars

\* The command line: embed, then extract on what embed wrote.
CliNext == CliEmbed \/ CliExtract \/ Reset

CliSpec == Init /\ [][CliNext]_vars

\* The requests of the API on keys and media files.
ApiNext ==
    \/ KeyCreate \/ KeyDestroy
    \/ FileCreate \/ FileUpdate \/ FileEmbed \/ FileExtract

ApiSpec == ApiInit /\ [][ApiNext]_vars


(* ------------------------------ claims -------------------------------- *)

Extracted == ext.result # "none"

Untampered == tamper.kind = "none"

\* The verify key that goes with the prepare_payload call: the signer's
\* public key when it signed, none when it did not.
MatchingVerifyKey ==
    ext.verify_key =
        (IF pp.signing_key = NoKey THEN NoKey ELSE PublicKeyOf(pp.signing_key))

SameKeys == ext.session_key = pp.session_key /\ MatchingVerifyKey

Position(stages, name) ==
    IF \E i \in 1..Len(stages) : stages[i] = name
    THEN CHOOSE i \in 1..Len(stages) : stages[i] = name
    ELSE 0

\* C1: extract_payload on the unmodified wire bytes of prepare_payload(M, k
\* [, sk]), with the same k (and pk when signed), returns exactly M.
C1_PayloadRoundTrip ==
    (Extracted /\ Untampered /\ SameKeys)
        => (ext.returned /\ ext.message = pp.message)

\* Length of the wire payload prepare_payload gives for a message (it does
\* not depend on the draws).
WireLen(m, k) ==
    Len(PreparePayload(m, k, NoKey, CHOOSE n \in Urandom(NONCE_SIZE) : TRUE,
                       CHOOSE h \in Urandom(HEADER_SIZE) : TRUE).wire)

\* C2: when the wire payload of M plus the 32-bit prefix fits the carrier,
\* ImageSteganography.extract(embed(carrier, M, k), k) returns exactly M.
C2_ImageRoundTrip ==
    (/\ img.status = "extracted" /\ img.embedded /\ img.out.key = img.key
     /\ 8 * WireLen(img.message, img.key) + LENGTH_BITS <= Len(img.stego[2][2]))
        => (img.out.returned /\ img.out.message = img.message)

\* C3: the header prepare_payload writes is version 1, flag bit 0 = signed,
\* the nonce of this call's encryption in bytes 2-13, and two zero bytes.
C3_HeaderIsDeterministic ==
    (pp.status = "prepared" /\ Untampered)
        => /\ wire[1] = 1
           /\ (wire[2] % 2 = 1) = pp.has_signature
           /\ PySlice(wire, 2, 14) = pp.nonce
           /\ wire[15] = 0 /\ wire[16] = 0

\* C4: the nonce extract_payload decrypts under is header[2:14], and for a
\* payload of prepare_payload it is the nonce the ciphertext was encrypted
\* under; a tag mismatch is reported as DecryptionFailure.
C4_NonceReadFromHeaderField ==
    (Extracted /\ Position(ext.stages, "decrypt") > 0)
        => /\ ext.nonce = PySlice(wire, 2, 14)
           /\ Untampered => ext.nonce = pp.nonce

\* C5: whether 64 signature bytes are split off is decided by flag bit 0 of
\* header[1]: a signed payload extracted without a verify key is still
\* stripped, an unsigned one extracted with a verify key is decrypted whole.
C5_SignatureSplitFollowsFlag ==
    (Extracted /\ ext.result # "ReedSolomonUncorrectable")
        => /\ ext.stripped = (wire[2] % 2 = 1)
           /\ (pp.has_signature /\ ext.verify_key = NoKey) => ext.stripped
           /\ (~pp.has_signature /\ ext.verify_key # NoKey) => ~ext.stripped

\* C6: with a verify key, the signature is verified strictly before any
\* decryption, and a failed verification ends the call with
\* SignatureVerificationFailure without decrypting or decompressing.
C6_VerifyBeforeDecrypt ==
    (Extracted /\ ext.verify_key # NoKey /\ ext.result # "ReedSolomonUncorrectable")
        => /\ Position(ext.stages, "verify") > 0
           /\ Position(ext.stages, "decrypt") > 0
                => Position(ext.stages, "verify") < Position(ext.stages, "decrypt")
           /\ ext.sig = "invalid"
                => /\ ext.result = "SignatureVerificationFailure"
                   /\ ~ext.returned
                   /\ Position(ext.stages, "decrypt") = 0
                   /\ Position(ext.stages, "decompress") = 0

\* A signed payload checked against another signer's public key.
C6_Witness ==
    /\ pp.has_signature /\ ext.verify_key # NoKey /\ ~MatchingVerifyKey
    /\ ext.sig = "invalid"
    /\ ext.result = "SignatureVerificationFailure"

\* C7: an extract operation returns exactly what was prepared or embedded,
\* or fails: extract_payload returns no other message, the image codec
\* reads no fewer bits than the length it asked for and returns no other
\* message, the audio codec returns the embedded payload.
C7_NoPartialOutput ==
    /\ (Extracted /\ ext.returned) => ext.message = pp.message
    /\ img.status = "extracted"
         => /\ img.out.got = img.out.requested
            /\ img.out.returned => (img.embedded /\ img.out.message = img.message)
    /\ (aud.status = "extracted" /\ aud.out.returned) => aud.out.data = aud.payload

\* C8: up to 16 changed bytes of the encoded block (header intact) still
\* give back the message; half of the block changed gives
\* ReedSolomonUncorrectable.
C8_FecResilience ==
    (Extracted /\ tamper.kind = "body" /\ SameKeys)
        => /\ tamper.count <= RS_REDUNDANCY \div 2
                => (ext.returned /\ ext.message = pp.message)
           /\ tamper.count = BodyLen \div 2
                => ext.result = "ReedSolomonUncorrectable"

\* C9: a Reed-Solomon decode failure ends the call with
\* ReedSolomonUncorrectable: no later stage runs, nothing is returned and
\* the raw bytes are not decoded some other way.
C9_RSFailureIsTerminal ==
    Extracted
        => LET failed == ~RSDecode(PySliceFrom(wire, HEADER_SIZE)).ok
           IN  /\ failed => /\ ext.result = "ReedSolomonUncorrectable"
                            /\ ext.stages = <<"rs_decode">>
                            /\ ~ext.returned /\ ext.message = <<>>
               /\ ext.result = "ReedSolomonUncorrectable" => failed

\* More than 16 bytes of the block were changed and the call gave up.
C9_Witness ==
    /\ tamper.kind = "body" /\ tamper.count > RS_REDUNDANCY \div 2
    /\ ext.result = "ReedSolomonUncorrectable"

\* C10: on a payload of prepare_payload(M, k), a session key other than k
\* gives DecryptionFailure and no message bytes; so does k itself once the
\* nonce field of the header has been changed.
C10_AeadAuthentication ==
    (/\ Extracted /\ MatchingVerifyKey
     /\ \/ Untampered /\ ext.session_key # pp.session_key
        \/ tamper.kind = "nonce_field")
        => /\ ext.result = "DecryptionFailure"
           /\ ~ext.returned /\ ext.message = <<>>

\* The unmodified payload under the other session key.
C10_Witness ==
    /\ Untampered /\ MatchingVerifyKey /\ pp.has_signature
    /\ ext.session_key # pp.session_key
    /\ ext.result = "DecryptionFailure"

(* ------------------------ claims on KeyManager ------------------------ *)

Unwrapped == kx.status = "unwrapped"

WrapUntampered == kx.tamper.kind = "none"

\* The private key used by unwrap is the recipient's, as raw bytes.
RecipientKeyUsed == kx.out.private_key = kx.recipient

\* C11: wrap_session_key returns ephemeral_public(32) || nonce(12) ||
\* ciphertext_with_tag, and unwrap_session_key on that blob with the
\* recipient's private key returns the session key that was wrapped.
C11_KeyExchangeRoundTrip ==
    /\ kx.status # "none"
         => /\ Len(kx.wrapped) = 32 + 12 + KEY_SIZE + TAG_SIZE
            /\ PySlice(kx.wrapped, 0, 32) = X25519Public(kx.ephemeral)
            /\ PySlice(kx.wrapped, 32, 44) = kx.nonce
    /\ (Unwrapped /\ WrapUntampered /\ RecipientKeyUsed)
         => (kx.out.result = "ok" /\ kx.out.session_key = kx.session_key)

\* The recipient unwrapped the blob as it was sent.
C11_Witness ==
    /\ Unwrapped /\ WrapUntampered /\ RecipientKeyUsed
    /\ kx.out.result = "ok" /\ Len(kx.out.session_key) = KEY_SIZE

\* C12 as stated: with another private key, or with any byte of the blob
\* changed, unwrap_session_key ends with the tag-mismatch error (InvalidTag,
\* the DecryptionFailure kind), no other exception, and returns no key.
C12_UnwrapFailsOnAnyChange ==
    (Unwrapped /\ (~RecipientKeyUsed \/ ~WrapUntampered))
        => (kx.out.result = "InvalidTag" /\ kx.out.session_key = <<>>)

\* The private key used has another scalar than the recipient's.
OtherScalar == X25519Scalar(kx.out.private_key) # X25519Scalar(kx.recipient)

\* The change to the blob is in the one bit X25519 ignores.
IgnoredBitOnly == kx.tamper.kind = "top_bit" /\ kx.tamper.at = 31

\* C12, amended: unwrap_session_key ends with InvalidTag and no key when
\* the private key has another scalar than the recipient's or a byte of
\* the blob was changed, except that a flip of the top bit of byte 31 (a
\* bit X25519 ignores) and a private key differing only in clamped bits
\* leave the result the wrapped session key, and an all-zero ephemeral
\* value ends the call with ValueError from the exchange.
C12_UnwrapFailsOnTagMismatch ==
    Unwrapped
        => /\ kx.tamper.kind = "zero_point" => kx.out.result = "ValueError"
           /\ (/\ kx.tamper.kind # "zero_point"
               /\ OtherScalar \/ (~WrapUntampered /\ ~IgnoredBitOnly))
                => kx.out.result = "InvalidTag"
           /\ (~OtherScalar /\ (WrapUntampered \/ IgnoredBitOnly))
                => (kx.out.result = "ok" /\ kx.out.session_key = kx.session_key)
           /\ kx.out.result # "ok" => kx.out.session_key = <<>>

\* A byte of the ciphertext was changed and the recipient's key rejected it.
C12_Witness ==
    /\ Unwrapped /\ RecipientKeyUsed
    /\ kx.tamper.kind = "byte" /\ kx.tamper.at = 44
    /\ kx.out.result = "InvalidTag" /\ kx.out.session_key = <<>>

Verified == sg.status = "verified"

MatchingPublicKey == sg.out.public_key = PublicKeyOf(sg.signing_key)

\* C13: verify_signature never raises: on a changed or wrong-length
\* signature, changed data, another or a malformed public key it returns
\* False.
C13_VerifyNeverRaises ==
    Verified
        => /\ ~sg.out.raised
           /\ sg.out.value \in BOOLEAN
           /\ (sg.tamper.kind # "none" \/ ~MatchingPublicKey) => sg.out.value = FALSE

\* A signature one byte short, or a malformed key, gave False.
C13_Witness ==
    /\ Verified /\ ~sg.out.raised /\ sg.out.value = FALSE
    /\ \/ sg.tamper.kind = "truncated" /\ MatchingPublicKey
       \/ sg.out.public_key = MalformedKey

\* C14: under the public key of the signing key pair, verify_signature is
\* True for sign_data's signature of the data, and False once one byte of
\* the data or of the signature has been changed.
C14_SignatureCorrectness ==
    (Verified /\ MatchingPublicKey)
        => /\ sg.tamper.kind = "none" => sg.out.value = TRUE
           /\ sg.tamper.kind \in {"data", "signature"} => sg.out.value = FALSE

\* Changed data was rejected under the right key.
C14_Witness ==
    /\ Verified /\ MatchingPublicKey
    /\ sg.tamper.kind = "data" /\ sg.data # sg.signed
    /\ sg.out.value = FALSE

\* The derived value of a derive_seed return value.
SeedOf(v) == IF v.type = "tuple" THEN v.value[1] ELSE v.value

\* C15: derive_seed with an explicit salt is a function of (key, salt);
\* without a salt it returns the fresh 16-byte salt beside the 32-byte
\* value, and a later derive_seed(key, returned_salt) gives the same seed.
C15_SeedReproducible ==
    /\ ds.status # "none"
         => /\ Len(SeedOf(ds.first)) = KEY_SIZE
            /\ ds.salt = NoSalt
                 => (ds.first.type = "tuple" /\ Len(ds.first.value[2]) = 16)
    /\ ds.status = "again" => SeedOf(ds.again) = SeedOf(ds.first)

\* os.urandom calls made before the i-th encryption of the run: one by
\* each wrap_session_key, two by each prepare_payload.
DrawsBefore(i) ==
    (i - 1) + Cardinality({j \in 1..(i - 1) : aead[j].op = "prepare_payload"})

\* C16: the nonce of every prepare_payload and wrap_session_key encryption
\* is 12 bytes drawn from the random source inside that call; it is not
\* the header, not a caller's key, and not the nonce of an earlier call.
C16_FreshNoncePerCall ==
    /\ \A i \in 1..Len(aead) :
          /\ Len(aead[i].nonce) = NONCE_SIZE
          /\ aead[i].nonce = OsUrandom(DrawsBefore(i) + 1, NONCE_SIZE)
          /\ \A j \in 1..(i - 1) : aead[j].nonce # aead[i].nonce
    /\ pp.status = "prepared"
          => /\ pp.nonce = aead[Len(aead)].nonce \/ aead[Len(aead)].op # "prepare_payload"
             /\ pp.nonce # PySlice(wire, 0, NONCE_SIZE)
             /\ pp.nonce # PySlice(SessionKeyBytes(pp.session_key), 0, NONCE_SIZE)
    /\ kx.status = "wrapped"
          => kx.nonce # PySlice(kx.session_key, 0, NONCE_SIZE)

\* Three encryptions in a row, of both kinds.
C16_Witness ==
    /\ Len(aead) >= 3
    /\ \E i, j \in 1..Len(aead) :
          aead[i].op = "prepare_payload" /\ aead[j].op = "wrap_session_key" /\ i < j
    /\ pp.status = "prepared" /\ kx.status = "wrapped"

(* ---------------------- claims on the codec contract ------------------ *)

\* ImageSteganography.embed was called on the image at hand.
ImageEmbedCalled == img.status # "none" /\ img.key # NoKey

\* Bits of the 32-bit prefix and the wire payload, and the coefficients of
\* the embedding subband.
BitstreamLen == LENGTH_BITS + 8 * Len(img.wire)

SubbandCount == Len(img.stego[2][2])

\* C17: embed of every codec fails with PayloadTooLarge and gives no output
\* carrier when the payload exceeds the carrier's capacity: for the image
\* codec when prefix plus payload bits exceed the subband's coefficients
\* (the "Payload too large" ValueError), for the others when the payload
\* has more bytes than analyze_capacity reports.
C17_EmbedRejectsOversize ==
    /\ (ImageEmbedCalled /\ BitstreamLen > SubbandCount) => ~img.embedded
    /\ aud.status \in {"embedded", "extracted"}
         => Len(aud.payload) <= AudioAnalyzeCapacity(aud.stego).report.capacity_bytes
    /\ (oth.status = "done" /\ Len(oth.payload) > oth.capacity_bytes)
         => (oth.result = "PayloadTooLarge" /\ oth.hidden = <<>>)

\* C18: a payload of exactly the capacity analyze_capacity computes for an
\* image ((coefficients - 32) div 8 bytes) is embedded without
\* PayloadTooLarge, and a payload that needs more coefficients than the
\* subband has raises it.
C18_CapacityBoundExact ==
    ImageEmbedCalled
        => /\ Len(img.wire) <= ImageAnalyzeCapacity(img.stego).usable_bytes
                => img.embedded
           /\ BitstreamLen > SubbandCount => img.status = "too_large"

\* C19: every report analyze_capacity returns has capacity_bytes and
\* recommended_max_payload, the second half of the first; for an image
\* capacity_bytes is (subband coefficient count - 32) div 8.
C19_CapacityReport ==
    (cap.status = "done" /\ ~cap.raised)
        => /\ {"capacity_bytes", "recommended_max_payload"} \subseteq DOMAIN cap.report
           /\ cap.report.recommended_max_payload = cap.report.capacity_bytes \div 2
           /\ cap.codec = "image"
                => cap.report.capacity_bytes
                      = (cap.report.total_coefficients - 32) \div 8

\* The 32-bit big-endian form of a count below 2^15.
IntToBits32(n) ==
    [i \in 1..LENGTH_BITS |->
        IF LENGTH_BITS - i >= 15 THEN 0 ELSE (n \div (2 ^ (LENGTH_BITS - i))) % 2]

\* Bytes flattened to bits, most significant bit first.
BytesToBits(b) ==
    [i \in 1..(8 * Len(b)) |->
        (b[((i - 1) \div 8) + 1] \div (2 ^ (7 - ((i - 1) % 8)))) % 2]

\* C20: embed writes the 32-bit big-endian count of the payload bits, then
\* the wire bytes MSB-first; extract reads the count, then that many bits
\* after the prefix, and hands them to extract_payload packed into bytes.
C20_BitstreamFraming ==
    /\ (img.embedded /\ BitstreamLen <= SubbandCount)
         => ExtractFromCoeffs(img.stego, BitstreamLen)
               = IntToBits32(8 * Len(img.wire)) \o BytesToBits(img.wire)
    /\ img.status = "extracted"
         => /\ img.out.handed.type = "bytes"
            /\ img.out.handed.first = LENGTH_BITS
            /\ img.out.handed.count = img.out.length

(* ------------------ claims on the stand-in codecs --------------------- *)

\* C21: for the audio, video and document codecs, extract on the carrier
\* embed returned gives back exactly the embedded payload or ends with an
\* explicit not-functional error; it never returns other data.
C21_ExtractRecoversOrRefuses ==
    /\ aud.status = "extracted"
         => \/ aud.out.result = "NotFunctional"
            \/ (aud.out.result = "ok" /\ aud.out.data = aud.payload)
    /\ oth.status = "extracted"
         => \/ oth.out.result = "NotFunctional"
            \/ (oth.out.result = "ok" /\ oth.out.data = oth.payload)

\* C22: analyze_capacity on a carrier it cannot analyse (a document that
\* is neither PDF nor DOCX, a video the probe fails on) raises an error
\* and returns no capacity figures.
C22_UnanalysableCarrierIsReported ==
    (cap.status = "done" /\ cap.codec \in {"video", "document"} /\ ~cap.analysable)
        => /\ cap.raised
           /\ "capacity_bytes" \notin DOMAIN cap.report

\* C23: when an embed, extract or analyze_capacity call has ended, on
\* whatever path, no temporary file it created remains.
C23_NoTemporaryFileRemains == tmpfiles = NoFiles

(* --------------------- claims on concurrent calls --------------------- *)

\* What thread t's call returns when it runs alone on its own arguments,
\* given the outcomes of the os.urandom calls it made.
AloneResult(t) ==
    LET c == thr.calls[t]
    IN  IF c.op = "prepare_payload"
        THEN PreparePayload(c.message, c.session_key, NoKey,
                            OsUrandom(c.draws[1], NONCE_SIZE),
                            OsUrandom(c.draws[2], HEADER_SIZE))
        ELSE EmbedInCoeffs(c.coeffs, c.payload_bits)

\* The arguments thread t reads in its frame are the ones it was called
\* with.
OwnArguments(t) ==
    LET c == thr.calls[t]
        l == thr.frames[Frame(t)]
    IN  /\ l.message = c.message /\ l.session_key = c.session_key
        /\ l.payload_bits = c.payload_bits
        /\ c.pc \in {"copy", "loop"} => l.coeffs = c.coeffs

\* C24: whatever the interleaving of two invocations that have their own
\* arguments, each returns what it returns when run alone (given its own
\* random draws), reads only its own arguments, and never has the nonce of
\* the other.
C24_InvocationsDoNotInterfere ==
    /\ \A t \in Threads :
        /\ thr.calls[t].pc \notin {"none", "done"} => OwnArguments(t)
        /\ thr.calls[t].pc = "done" => thr.calls[t].ret = AloneResult(t)
    /\ \A t, u \in Threads :
        (/\ t # u
         /\ thr.calls[t].pc = "done" /\ thr.calls[u].pc = "done"
         /\ thr.calls[t].op = "prepare_payload" /\ thr.calls[u].op = "prepare_payload")
            => thr.calls[t].ret.metadata.nonce # thr.calls[u].ret.metadata.nonce

\* Two prepare_payload calls on different messages and keys ran with their
\* statements interleaved, and both have returned.
C24_Witness ==
    /\ \A t \in Threads :
        thr.calls[t].pc = "done" /\ thr.calls[t].op = "prepare_payload"
    /\ thr.calls[1].message # thr.calls[2].message
    /\ thr.calls[1].session_key # thr.calls[2].session_key
    /\ thr.calls[1].draws = <<1, 4>> /\ thr.calls[2].draws = <<2, 3>>

(* --------------------------- claims on QIM ---------------------------- *)

\* C25: with step 20, embedding bit 0 replaces a coefficient by a nearest
\* multiple of 20 and bit 1 by a nearest point of the lattice {20m - 10}
\* (nearest: no farther than half a step), and the extraction rule on the
\* replaced coefficient returns the bit, rounding ties included.
C25_QimRoundTrip ==
    qim.status \in {"embedded", "extracted"}
        => /\ 2 * Abs(qim.coeff - qim.embedded) <= Step
           /\ qim.bit = 0 => qim.embedded % Step = 0
           /\ qim.bit = 1 => (qim.embedded + Step \div 2) % Step = 0
           /\ qim.status = "extracted" => qim.extracted = qim.bit

\* A coefficient exactly half-way between two multiples of 20 (30.0) was
\* given bit 0, went to the even multiple (40.0), and was read back as 0.
C25_Witness ==
    /\ qim.status = "extracted" /\ qim.bit = 0 /\ qim.extracted = 0
    /\ qim.coeff = Step + Step \div 2 /\ qim.embedded = 2 * Step

(* ---------------------- claims on the image frame --------------------- *)

\* The image embed returned, decomposed again.
StegoCoeffs == Wavedec2(frm.stego.y)

FrameEmbedded == frm.status \in {"embedded", "extracted"}

\* The bands of decomposition `after` equal those of `before`, but for the
\* first n coefficients of the subband at place `band` of the level-2
\* triple.
OnlyFirstChanged(before, after, band, n) ==
    /\ after[1] = before[1]
    /\ after[3] = before[3]
    /\ \A b \in 1..3 : b # band => after[2][b] = before[2][b]
    /\ \A i \in 1..Len(before[2][band]) :
          i > n => after[2][band][i] = before[2][band][i]

\* C26: the embedding surface is the first element of the coarsest detail
\* triple (the level-2 horizontal detail): embed changes coefficients of
\* that subband only, and extract reads the bits from it.
C26_HorizontalDetailSubband ==
    /\ FrameEmbedded
         => OnlyFirstChanged(frm.coeffs, frm.modified, 1, Len(frm.payload_bits))
    /\ frm.status = "extracted"
         => frm.read = [i \in 1..Len(frm.payload_bits) |->
                           IF Abs(StegoCoeffs[2][1][i] - Q0(StegoCoeffs[2][1][i]))
                                < Abs(StegoCoeffs[2][1][i] - Q1(StegoCoeffs[2][1][i]))
                           THEN 0 ELSE 1]

\* C27 as stated: in the image embed returns, only the first n
\* coefficients of the selected subband differ from the carrier's; the
\* approximation band, the other detail subbands, the later coefficients
\* and the chroma planes are the carrier's.
C27_StegoImageFrame ==
    FrameEmbedded
        => /\ OnlyFirstChanged(frm.coeffs, StegoCoeffs, 2, Len(frm.payload_bits))
           /\ frm.stego.cb = frm.image.cb /\ frm.stego.cr = frm.image.cr

\* C27, for the coefficients: _embed_in_coeffs changes only the first n
\* coefficients of the subband it selects, and the chroma planes merged
\* with the new luma are the carrier's; what clipping and the cut to
\* 8-bit samples do to the other bands of the returned image is left
\* open.
C27_CoefficientFrame ==
    FrameEmbedded
        => /\ OnlyFirstChanged(frm.coeffs, frm.modified, 2, Len(frm.payload_bits))
           /\ frm.stego.cb = frm.image.cb /\ frm.stego.cr = frm.image.cr

\* Two bits went into a subband of three coefficients, the first
\* coefficient changed, and the approximation band of the returned image
\* is not the carrier's.
C27_Witness ==
    /\ FrameEmbedded
    /\ Len(frm.payload_bits) = 2 /\ Len(frm.coeffs[2][2]) = 3
    /\ frm.modified[2][2][1] # frm.coeffs[2][2][1]
    /\ StegoCoeffs[1] # frm.coeffs[1]

(* ------------------ claims on the document dispatch ------------------- *)

\* The format the three operations are to select: an explicit 'pdf' or
\* 'docx' wins; without a document_type the leading bytes decide; anything
\* else is unsupported.
ExpectedFormat ==
    IF doc.document_type \in {"pdf", "docx"} THEN doc.document_type
    ELSE IF doc.document_type = NoType /\ doc.document.type \in {"pdf", "docx"}
    THEN doc.document.type
    ELSE "unsupported"

\* The format an operation worked in, read off what it did: the parser
\* that failed, the place the payload went to or came from, the `type`
\* entry of the report.
EmbedFormat ==
    IF doc.embed.result = "PdfError" THEN "pdf"
    ELSE IF doc.embed.result = "PackageNotFoundError" THEN "docx"
    ELSE IF doc.embed.result = "UnsupportedMediaType" THEN "unsupported"
    ELSE IF doc.embed.carrier.hidden = doc.payload THEN "pdf"
    ELSE "docx"

ExtractFormat ==
    IF doc.extract.result = "PdfError" THEN "pdf"
    ELSE IF doc.extract.result = "PackageNotFoundError" THEN "docx"
    ELSE IF doc.extract.result = "UnsupportedMediaType" THEN "unsupported"
    ELSE IF doc.extract.result = "NoPayloadFound"
    THEN (IF doc.document.type = "pdf" THEN "pdf" ELSE "docx")
    ELSE IF doc.extract.data = doc.document.hidden THEN "pdf"
    ELSE "docx"

AnalyzeFormat ==
    IF "type" \in DOMAIN doc.analyze_capacity.report
    THEN doc.analyze_capacity.report.type
    ELSE "unsupported"

\* C30: on the same document bytes and document_type, embed, extract and
\* analyze_capacity select the same format, the expected one; for an
\* unsupported input embed and extract raise the unsupported-type error,
\* embed returns no document and leaves the input as it was.
C30_DispatchConsistentAndTotal ==
    /\ "embed" \in doc.done
         => /\ EmbedFormat = ExpectedFormat
            /\ ExpectedFormat = "unsupported"
                 => /\ doc.embed.result = "UnsupportedMediaType"
                    /\ doc.embed.carrier = doc.document
    /\ "extract" \in doc.done
         => /\ ExtractFormat = ExpectedFormat
            /\ ExpectedFormat = "unsupported"
                 => /\ doc.extract.result = "UnsupportedMediaType"
                    /\ doc.extract.data = <<>>
    /\ "analyze_capacity" \in doc.done => AnalyzeFormat = ExpectedFormat

\* All three operations ran on DOCX bytes with document_type 'pdf': the
\* argument won in each of them.
C30_Witness ==
    /\ doc.done = {"embed", "extract", "analyze_capacity"}
    /\ doc.document.type = "docx" /\ doc.document_type = "pdf"
    /\ doc.embed.result = "PdfError" /\ doc.extract.result = "PdfError"
    /\ doc.analyze_capacity.report.type = "pdf"

(* --------------------- claims on the command line --------------------- *)

\* C29: every file type detect_file_type returns has a handler, and
\* extract_command with the same key on the output of a successful
\* embed_command returns the embedded message.
C29_CliEmbedThenExtract ==
    /\ \A extension \in CliExtensions :
          DetectFileType(extension) # "ValueError"
             => GetSteganographyHandler(DetectFileType(extension)) # "ValueError"
    /\ (cli.status = "extracted" /\ cli.out.key = cli.key)
          => /\ cli.out.result = "ok"
             /\ cli.out.returned
             /\ cli.out.message = cli.message

(* --------------------------- claims on the API ------------------------ *)

====
